---- MODULE Spec2Model ----
(***************************************************************************)
(* Model of the Onetime Authenticator core: the otpauth parser             *)
(* (utils/otp.ts: parseOTPAuthURL, getTimeRemaining), the account store    *)
(* (utils/storage.ts) and the scan handlers that call them                 *)
(* (components/TokenImporter.tsx, app/(tabs)/add.tsx).                     *)
(*                                                                         *)
(* Text is modelled as TLA+ strings handled character by character         *)
(* (Len, SubSeq and \o), so trimming, searching, splitting, percent        *)
(* decoding and Base32 re-encoding are computed, not assumed.              *)
(***************************************************************************)
EXTENDS Integers, Sequences, FiniteSets, TLC

VARIABLES
    now,            \* wall clock, whole seconds (Math.floor(Date.now() / 1000))
    trPeriod,       \* argument of the last getTimeRemaining call (0: none yet)
    trResult,       \* value returned by the last getTimeRemaining call
    genSource,      \* the URI the credential of the last generateTOTP call was parsed from
                    \* ("" when the arguments were given directly)
    genArgs,        \* arguments of the last generateTOTP call
    genOut,         \* its outcome: the string returned and the counter that was hashed
    parseArg,       \* argument of the last parseOTPAuthURL call
    parsed,         \* its outcome: credential, thrown error or null, with the paths taken
    rUrl,           \* retry model: argument of the innermost parseOTPAuthURL frame
    rDepth,         \* retry model: number of nested recursive calls in progress
    rRetries,       \* retry model: retries performed by the top-level call so far
    rStatus,        \* retry model: "idle" | "running" | "unwinding" | "done"
    rResult,        \* retry model: outcome travelling up the call stack
    importState,    \* TokenImporter: importState
    errorMessage,   \* TokenImporter: errorMessage
    importedCount,  \* TokenImporter: importedCount
    tiPc,           \* TokenImporter.handleScan: "idle" | "adding" | "saving" | "done" (ended,
                    \* its result on display)
    tiAccount,      \* TokenImporter.handleScan: accountData awaiting addAccount
    tiList,         \* TokenImporter.handleScan: the list its addAccount call read
    scanning,       \* AddScreen: scanning
    alert,          \* AddScreen: title key of the last Alert.alert ("" : none)
    asPc,           \* AddScreen.handleBarCodeScanned: "idle" | "adding" | "saving" | "done" (ended,
                    \* its alert on display)
    asAccount,      \* AddScreen.handleBarCodeScanned: accountData awaiting addAccount
    asList,         \* AddScreen.handleBarCodeScanned: the list its addAccount call read
    unhandled,      \* TRUE once an exception left a scan handler uncaught
    accounts,       \* the stored account list (ACCOUNTS_STORAGE_KEY)
    flag,           \* storage layer: the item ENCRYPTED_STORAGE_ENABLED_KEY ("" : never set)
    item,           \* storage layer: the item ACCOUNTS_STORAGE_KEY, as the JSON value it holds
    exported,       \* storage layer: the text exportAccounts returned ("" : none), with
                    \* the accounts that were stored when it was called and whether
                    \* its read succeeded
    storeCall,      \* storage layer: the last call, its argument and its outcome
    calls,          \* storage layer: the calls in flight, each at its pending await
    qr,             \* QRCodeScanner: isScanning, scanSuccess, scanError
    timers,         \* QRCodeScanner: the pending setTimeout callbacks of showSuccessState
    onScanCall,     \* QRCodeScanner: the last call of its onScan prop
    importer        \* TokenImporter: the state its last render showed, the code held
                    \* before the camera and the addAccount calls started for it

timeVars  == <<now, trPeriod, trResult, genSource, genArgs, genOut>>
parseVars == <<parseArg, parsed>>
retryVars == <<rUrl, rDepth, rRetries, rStatus, rResult>>
uiVars    == <<importState, errorMessage, importedCount, tiPc, tiAccount, tiList,
               scanning, alert, asPc, asAccount, asList, unhandled, accounts>>
vaultVars == <<flag, item, exported, storeCall>>
asyncVars == <<calls, qr, timers, onScanCall, importer>>
vars      == <<timeVars, parseVars, retryVars, uiVars, vaultVars, asyncVars>>

(***************************************************************************)
(* Bounds of the model.                                                    *)
(***************************************************************************)
MaxNow == 40
MaxCalls == 3
CallIds == 1..MaxCalls
\* a slot without a call
NoCall == [op |-> "none", pc |-> "idle"]
MaxPeriod == 12

(***************************************************************************)
(* Text primitives (JavaScript String methods).                            *)
(***************************************************************************)
Ch(s, i) == SubSeq(s, i, i)

Sub(s, a, b) == IF a > b THEN "" ELSE SubSeq(s, a, b)

MinOf(S) == CHOOSE x \in S : \A y \in S : x <= y

MaxOf(S) == CHOOSE x \in S : \A y \in S : x >= y

UPPER == "ABCDEFGHIJKLMNOPQRSTUVWXYZ"

LOWER == "abcdefghijklmnopqrstuvwxyz"

DIGITS == "0123456789"

WhiteSpace == {" ", "\t", "\n", "\r"}

\* position of the one-character string c in the string s, 0 when absent
PosIn(s, c) ==
    LET P == {i \in 1..Len(s) : Ch(s, i) = c}
    IN  IF P = {} THEN 0 ELSE MinOf(P)

IsUpper(c) == PosIn(UPPER, c) > 0

IsLower(c) == PosIn(LOWER, c) > 0

IsDigit(c) == PosIn(DIGITS, c) > 0

LowerCh(c) == IF IsUpper(c) THEN Ch(LOWER, PosIn(UPPER, c)) ELSE c

UpperCh(c) == IF IsLower(c) THEN Ch(UPPER, PosIn(LOWER, c)) ELSE c

RECURSIVE ToLowerFrom(_, _)
ToLowerFrom(s, i) ==
    IF i > Len(s) THEN "" ELSE LowerCh(Ch(s, i)) \o ToLowerFrom(s, i + 1)

\* String.prototype.toLowerCase
ToLowerCase(s) == ToLowerFrom(s, 1)

RECURSIVE ToUpperFrom(_, _)
ToUpperFrom(s, i) ==
    IF i > Len(s) THEN "" ELSE UpperCh(Ch(s, i)) \o ToUpperFrom(s, i + 1)

\* String.prototype.toUpperCase
ToUpperCase(s) == ToUpperFrom(s, 1)

\* String.prototype.indexOf(p, from), 1-based, 0 when p does not occur
IndexOfFrom(s, p, from) ==
    LET C == {j \in from..(Len(s) - Len(p) + 1) : SubSeq(s, j, j + Len(p) - 1) = p}
    IN  IF C = {} THEN 0 ELSE MinOf(C)

IndexOf(s, p) == IndexOfFrom(s, p, 1)

LastIndexOf(s, p) ==
    LET C == {j \in 1..(Len(s) - Len(p) + 1) : SubSeq(s, j, j + Len(p) - 1) = p}
    IN  IF C = {} THEN 0 ELSE MaxOf(C)

\* String.prototype.includes
Includes(s, p) == IndexOf(s, p) > 0

\* String.prototype.startsWith
StartsWith(s, p) == Len(s) >= Len(p) /\ Sub(s, 1, Len(p)) = p

\* String.prototype.replace(p, r) with a string pattern: the first occurrence only
ReplaceFirst(s, p, r) ==
    LET i == IndexOf(s, p)
    IN  IF i = 0 THEN s
        ELSE Sub(s, 1, i - 1) \o r \o Sub(s, i + Len(p), Len(s))

\* String.prototype.trim
Trim(s) ==
    LET K == {i \in 1..Len(s) : Ch(s, i) \notin WhiteSpace}
    IN  IF K = {} THEN "" ELSE Sub(s, MinOf(K), MaxOf(K))

\* String.prototype.split(sep) for a non-empty separator
RECURSIVE SplitFrom(_, _, _)
SplitFrom(s, sep, from) ==
    LET i == IndexOfFrom(s, sep, from)
    IN  IF i = 0 THEN <<Sub(s, from, Len(s))>>
        ELSE <<Sub(s, from, i - 1)>> \o SplitFrom(s, sep, i + Len(sep))

Split(s, sep) == SplitFrom(s, sep, 1)

\* String.prototype.substring(0, n)
Substring0(s, n) == Sub(s, 1, IF n < Len(s) THEN n ELSE Len(s))

(***************************************************************************)
(* Character codes and percent-encoding (encodeURIComponent,               *)
(* decodeURIComponent).  The model's alphabet is printable ASCII without  *)
(* the grave accent, plus tab, line feed and carriage return.              *)
(***************************************************************************)
ASCII_LOW == " !\"#$%&'()*+,-./0123456789:;<=>?@ABCDEFGHIJKLMNOPQRSTUVWXYZ[\\]^_"

ASCII_HIGH == "abcdefghijklmnopqrstuvwxyz{|}~"

HEX == "0123456789ABCDEF"

\* String.prototype.charCodeAt(0): codes 32..95 and 97..126, tab, LF and CR
CharCode(c) ==
    CASE c = "\t" -> 9
      [] c = "\n" -> 10
      [] c = "\r" -> 13
      [] PosIn(ASCII_HIGH, c) > 0 -> 96 + PosIn(ASCII_HIGH, c)
      [] OTHER -> 31 + PosIn(ASCII_LOW, c)

HasChar(code) == code \in {9, 10, 13} \/ (code >= 32 /\ code <= 126 /\ code # 96)

FromCharCode(code) ==
    CASE code = 9 -> "\t"
      [] code = 10 -> "\n"
      [] code = 13 -> "\r"
      [] code >= 97 -> Ch(ASCII_HIGH, code - 96)
      [] OTHER -> Ch(ASCII_LOW, code - 31)

HexVal(c) == PosIn(HEX, UpperCh(c)) - 1

IsHex(c) == PosIn(HEX, UpperCh(c)) > 0

\* characters encodeURIComponent leaves alone
UriUnreserved(c) == IsUpper(c) \/ IsLower(c) \/ IsDigit(c) \/ PosIn("-_.!~*'()", c) > 0

RECURSIVE EncodeFrom(_, _)
EncodeFrom(s, i) ==
    IF i > Len(s) THEN ""
    ELSE LET c == Ch(s, i)
             e == IF UriUnreserved(c) THEN c
                  ELSE "%" \o Ch(HEX, (CharCode(c) \div 16) + 1) \o Ch(HEX, (CharCode(c) % 16) + 1)
         IN  e \o EncodeFrom(s, i + 1)

encodeURIComponent(s) == EncodeFrom(s, 1)

\* decodeURIComponent: ok = FALSE stands for the URIError it throws on a '%' that
\* does not start a valid escape (escapes above %7E are outside the alphabet and
\* are reported the same way)
RECURSIVE DecodeFrom(_, _)
DecodeFrom(s, i) ==
    IF i > Len(s) THEN [ok |-> TRUE, s |-> ""]
    ELSE IF Ch(s, i) # "%"
    THEN LET r == DecodeFrom(s, i + 1)
         IN  [ok |-> r.ok, s |-> Ch(s, i) \o r.s]
    ELSE IF i + 2 <= Len(s) /\ IsHex(Ch(s, i + 1)) /\ IsHex(Ch(s, i + 2))
            /\ HasChar(16 * HexVal(Ch(s, i + 1)) + HexVal(Ch(s, i + 2)))
    THEN LET r == DecodeFrom(s, i + 3)
         IN  [ok |-> r.ok,
              s |-> FromCharCode(16 * HexVal(Ch(s, i + 1)) + HexVal(Ch(s, i + 2))) \o r.s]
    ELSE [ok |-> FALSE, s |-> ""]

decodeURIComponent(s) == DecodeFrom(s, 1)

\* the lenient percent-decoding of the URL standard (used by URLSearchParams):
\* '+' is a space and an invalid escape is kept as it is
RECURSIVE FormDecodeFrom(_, _)
FormDecodeFrom(s, i) ==
    IF i > Len(s) THEN ""
    ELSE IF Ch(s, i) = "+" THEN " " \o FormDecodeFrom(s, i + 1)
    ELSE IF Ch(s, i) = "%" /\ i + 2 <= Len(s) /\ IsHex(Ch(s, i + 1)) /\ IsHex(Ch(s, i + 2))
            /\ HasChar(16 * HexVal(Ch(s, i + 1)) + HexVal(Ch(s, i + 2)))
    THEN FromCharCode(16 * HexVal(Ch(s, i + 1)) + HexVal(Ch(s, i + 2))) \o FormDecodeFrom(s, i + 3)
    ELSE Ch(s, i) \o FormDecodeFrom(s, i + 1)

FormDecode(s) == FormDecodeFrom(s, 1)

(***************************************************************************)
(* URLSearchParams: the list of name/value pairs of a query string, and    *)
(* get(name): the first value, Null when absent.                           *)
(***************************************************************************)
\* a string-or-null value: Null, or Some(s)
Null == [has |-> FALSE, v |-> ""]

Some(s) == [has |-> TRUE, v |-> s]

URLSearchParams(q) ==
    LET pair(p, e) == IF e = 0 THEN <<FormDecode(p), "">>
                      ELSE <<FormDecode(Sub(p, 1, e - 1)), FormDecode(Sub(p, e + 1, Len(p)))>>
        pairs(kept) == [i \in 1..Len(kept) |-> pair(kept[i], IndexOf(kept[i], "="))]
    IN  pairs(SelectSeq(Split(IF StartsWith(q, "?") THEN Sub(q, 2, Len(q)) ELSE q, "&"),
                        LAMBDA p : p # ""))

ParamsGet(params, name) ==
    LET H == {i \in 1..Len(params) : params[i][1] = name}
    IN  IF H = {} THEN Null ELSE Some(params[MinOf(H)][2])

\* JavaScript truthiness of a string-or-null value
Truthy(o) == o.has /\ o.v # ""

\* a || b for string-or-null values
Or(a, b) == IF Truthy(a) THEN a ELSE b

(***************************************************************************)
(* JSON.parse, for the texts the parser's JSON path can tell apart: an     *)
(* object whose members are strings, integers or true/false/null.  A JSON  *)
(* value is [t, v]: t = "s" string, "n" number, "l" literal, "u" undefined.*)
(* ok = FALSE covers every other text: JSON.parse throws on it, or yields  *)
(* a value (number, string, array, null) without own properties (strings   *)
(* with escapes and nested members are outside the modelled texts).        *)
(***************************************************************************)
JUndefined == [t |-> "u", v |-> ""]

JFail == [ok |-> FALSE, val |-> JUndefined, next |-> 0]

JSkip(s, i) ==
    LET K == {j \in i..Len(s) : Ch(s, j) \notin WhiteSpace}
    IN  IF K = {} THEN Len(s) + 1 ELSE MinOf(K)

JString(s, i) ==
    LET e == IndexOfFrom(s, "\"", i + 1)
        body == Sub(s, i + 1, e - 1)
    IN  IF i > Len(s) \/ Ch(s, i) # "\"" \/ e = 0 THEN JFail
        ELSE IF \E j \in 1..Len(body) : Ch(body, j) \in {"\\", "\t", "\n", "\r"} THEN JFail
        ELSE [ok |-> TRUE, val |-> [t |-> "s", v |-> body], next |-> e + 1]

JNumber(s, i) ==
    LET d0 == IF i <= Len(s) /\ Ch(s, i) = "-" THEN i + 1 ELSE i
        N  == {j \in d0..Len(s) : ~IsDigit(Ch(s, j))}
        e  == IF N = {} THEN Len(s) + 1 ELSE MinOf(N)
        ds == Sub(s, d0, e - 1)
    IN  IF ds = "" \/ (Len(ds) > 1 /\ Ch(ds, 1) = "0") THEN JFail
        ELSE [ok |-> TRUE, val |-> [t |-> "n", v |-> Sub(s, i, e - 1)], next |-> e]

JLiteral(s, i) ==
    LET L == {w \in {"true", "false", "null"} : Sub(s, i, IF i + Len(w) - 1 <= Len(s) THEN i + Len(w) - 1 ELSE 0) = w}
    IN  IF L = {} THEN JFail
        ELSE LET w == CHOOSE x \in L : TRUE
             IN  [ok |-> TRUE, val |-> [t |-> "l", v |-> w], next |-> i + Len(w)]

JValue(s, i) ==
    IF i > Len(s) THEN JFail
    ELSE IF Ch(s, i) = "\"" THEN JString(s, i)
    ELSE IF IsDigit(Ch(s, i)) \/ Ch(s, i) = "-" THEN JNumber(s, i)
    ELSE JLiteral(s, i)

\* members of an object from position i (just after '{' or ','), accumulated in acc
RECURSIVE JMembers(_, _, _)
JMembers(s, i, acc) ==
    LET fail == [ok |-> FALSE, obj |-> <<>>]
        \* d: the position after the member's value; more: the members so far
        close(d, more) ==
            IF d > Len(s) THEN fail
            ELSE IF Ch(s, d) = "," THEN JMembers(s, d + 1, more)
            ELSE IF Ch(s, d) = "}" /\ JSkip(s, d + 1) > Len(s) THEN [ok |-> TRUE, obj |-> more]
            ELSE fail
        value(k, v) ==
            IF ~v.ok THEN fail ELSE close(JSkip(s, v.next), Append(acc, <<k.val.v, v.val>>))
        colon(k, c) ==
            IF c > Len(s) \/ Ch(s, c) # ":" THEN fail ELSE value(k, JValue(s, JSkip(s, c + 1)))
        key(k) == IF ~k.ok THEN fail ELSE colon(k, JSkip(s, k.next))
    IN  key(JString(s, JSkip(s, i)))

JSONParseObject(s) ==
    LET object(a, b) ==
            IF a > Len(s) \/ Ch(s, a) # "{" THEN [ok |-> FALSE, obj |-> <<>>]
            ELSE IF b <= Len(s) /\ Ch(s, b) = "}" /\ JSkip(s, b + 1) > Len(s)
                 THEN [ok |-> TRUE, obj |-> <<>>]
            ELSE JMembers(s, a + 1, <<>>)
        open(a) == object(a, JSkip(s, a + 1))
    IN  open(JSkip(s, 1))

\* property read jsonData.k (a later duplicate member wins)
JGet(obj, k) ==
    LET H == {i \in 1..Len(obj) : obj[i][1] = k}
    IN  IF H = {} THEN JUndefined ELSE obj[MaxOf(H)][2]

JTruthy(x) ==
    \/ x.t = "s" /\ x.v # ""
    \/ x.t = "n" /\ x.v \notin {"0", "-0"}
    \/ x.t = "l" /\ x.v = "true"

JOr(a, b) == IF JTruthy(a) THEN a ELSE b

\* String(x), as a template literal or encodeURIComponent applies it
JStr(x) == IF x.t = "n" /\ x.v = "-0" THEN "0" ELSE x.v

(***************************************************************************)
(* new URL(text) of the URL standard, for the parts the parser reads:      *)
(* pathname and searchParams.  ok = FALSE is the TypeError "Invalid URL".  *)
(***************************************************************************)
RECURSIVE StripTabNl(_, _)
StripTabNl(s, i) ==
    IF i > Len(s) THEN ""
    ELSE (IF Ch(s, i) \in {"\t", "\n", "\r"} THEN "" ELSE Ch(s, i)) \o StripTabNl(s, i + 1)

\* first position >= from of a character of the set D, Len(s)+1 when none
FirstOf(s, D, from) ==
    LET K == {j \in from..Len(s) : Ch(s, j) \in D}
    IN  IF K = {} THEN Len(s) + 1 ELSE MinOf(K)

SchemeOk(sc) ==
    /\ sc # ""
    /\ IsUpper(Ch(sc, 1)) \/ IsLower(Ch(sc, 1))
    /\ \A i \in 1..Len(sc) :
          IsUpper(Ch(sc, i)) \/ IsLower(Ch(sc, i)) \/ IsDigit(Ch(sc, i)) \/ Ch(sc, i) \in {"+", "-", "."}

AllDigits(s) == \A i \in 1..Len(s) : IsDigit(Ch(s, i))

RECURSIVE ParseIntFrom(_, _, _)
ParseIntFrom(s, i, acc) ==
    IF i > Len(s) THEN acc ELSE ParseIntFrom(s, i + 1, 10 * acc + (PosIn(DIGITS, Ch(s, i)) - 1))

\* parseInt(s, 10) of an unsigned digit string with an optional '+'
ParseInt(s) == ParseIntFrom(s, IF StartsWith(s, "+") THEN 2 ELSE 1, 0)

ForbiddenHostChars == {" ", "#", "/", "<", ">", "?", "@", "[", "\\", "]", "^", "|"}

\* the authority "userinfo@host:port" is acceptable
AuthorityOk(auth) ==
    LET \* a port is a number up to 65535, leading zeros allowed
        portOk(port, K) ==
            /\ AllDigits(port)
            /\ K # {} => /\ Len(port) - MinOf(K) < 5
                          /\ ParseInt(Sub(port, MinOf(K), Len(port))) <= 65535
        check(at, col, host, port) ==
            /\ portOk(port, {i \in 1..Len(port) : Ch(port, i) # "0"})
            /\ (at > 0 \/ col > 0) => host # ""
            /\ \A i \in 1..Len(host) : Ch(host, i) \notin ForbiddenHostChars
        hostPort(at, hp, col) ==
            check(at, col, IF col = 0 THEN hp ELSE Sub(hp, 1, col - 1),
                  IF col = 0 THEN "" ELSE Sub(hp, col + 1, Len(hp)))
        userinfo(at, hp) == hostPort(at, hp, LastIndexOf(hp, ":"))
        from(at) == userinfo(at, Sub(auth, at + 1, Len(auth)))
    IN  from(LastIndexOf(auth, "@"))

IsSingleDot(seg) == ToLowerCase(seg) \in {".", "%2e"}

IsDoubleDot(seg) == ToLowerCase(seg) \in {"..", ".%2e", "%2e.", "%2e%2e"}

PathEncodeSet == {" ", "\"", "<", ">", "{", "}"}

RECURSIVE PathEncodeFrom(_, _)
PathEncodeFrom(s, i) ==
    IF i > Len(s) THEN ""
    ELSE (IF Ch(s, i) \in PathEncodeSet THEN encodeURIComponent(Ch(s, i)) ELSE Ch(s, i))
         \o PathEncodeFrom(s, i + 1)

\* the segments of a hierarchical path with dot segments resolved
RECURSIVE PathSegments(_, _, _)
PathSegments(segs, i, acc) ==
    IF i > Len(segs) THEN acc
    ELSE LET seg  == segs[i]
             last == i = Len(segs)
             popped == IF acc = <<>> THEN acc ELSE SubSeq(acc, 1, Len(acc) - 1)
         IN  IF IsDoubleDot(seg)
             THEN PathSegments(segs, i + 1, IF last THEN Append(popped, "") ELSE popped)
             ELSE IF IsSingleDot(seg)
             THEN PathSegments(segs, i + 1, IF last THEN Append(acc, "") ELSE acc)
             ELSE PathSegments(segs, i + 1, Append(acc, PathEncodeFrom(seg, 1)))

RECURSIVE JoinPath(_, _)
JoinPath(segs, i) ==
    IF i > Len(segs) THEN "" ELSE "/" \o segs[i] \o JoinPath(segs, i + 1)

SpecialSchemes == {"http", "https", "ftp", "ws", "wss", "file"}

InvalidURL == [ok |-> FALSE, pathname |-> "", search |-> ""]

URLParse(text) ==
    LET path(scheme, hasAuth, rawPath) ==
            IF StartsWith(rawPath, "/")
            THEN JoinPath(PathSegments(Split(Sub(rawPath, 2, Len(rawPath)), "/"), 1, <<>>), 1)
            ELSE IF hasAuth THEN (IF scheme \in SpecialSchemes THEN "/" ELSE "")
            ELSE rawPath
        query(rest, pEnd, qEnd) ==
            IF pEnd <= Len(rest) /\ Ch(rest, pEnd) = "?" THEN Sub(rest, pEnd + 1, qEnd - 1) ELSE ""
        \* aEnd, pEnd: the positions in rest where the authority and the path end
        record(scheme, rest, hasAuth, auth, aEnd, pEnd) ==
            IF ~SchemeOk(scheme) THEN InvalidURL
            ELSE IF hasAuth /\ ~AuthorityOk(auth) THEN InvalidURL
            ELSE IF scheme \in SpecialSchemes /\ (~hasAuth \/ auth = "") /\ scheme # "file"
                 THEN InvalidURL
            ELSE [ok |-> TRUE,
                  pathname |-> path(scheme, hasAuth, Sub(rest, aEnd, pEnd - 1)),
                  search |-> query(rest, pEnd, FirstOf(rest, {"#"}, pEnd))]
        authority(scheme, rest, hasAuth, aEnd) ==
            record(scheme, rest, hasAuth, IF hasAuth THEN Sub(rest, 3, aEnd - 1) ELSE "",
                   aEnd, FirstOf(rest, {"?", "#"}, aEnd))
        slashes(scheme, rest, hasAuth) ==
            authority(scheme, rest, hasAuth,
                      IF hasAuth THEN FirstOf(rest, {"/", "?", "#"}, 3) ELSE 1)
        afterScheme(scheme, rest) == slashes(scheme, rest, StartsWith(rest, "//"))
        split(s, colon) ==
            IF colon = 0 THEN InvalidURL
            ELSE afterScheme(ToLowerCase(Sub(s, 1, colon - 1)), Sub(s, colon + 1, Len(s)))
        stripped(s) == split(s, IndexOf(s, ":"))
    IN  stripped(StripTabNl(Trim(text), 1))

(***************************************************************************)
(* Base32 of the otpauth library (Secret.fromBase32, Secret.base32).       *)
(***************************************************************************)
B32 == "ABCDEFGHIJKLMNOPQRSTUVWXYZ234567"

RECURSIVE Pow2(_)
Pow2(n) == IF n = 0 THEN 1 ELSE 2 * Pow2(n - 1)

RECURSIVE RemoveSpaces(_, _)
RemoveSpaces(s, i) ==
    IF i > Len(s) THEN ""
    ELSE (IF Ch(s, i) = " " THEN "" ELSE Ch(s, i)) \o RemoveSpaces(s, i + 1)

\* the text base32Decode reads: spaces removed, trailing '=' dropped, upper case
B32Clean(str) ==
    LET cut(t, K) == ToUpperCase(IF K = {} THEN "" ELSE Sub(t, 1, MaxOf(K)))
        unpadded(t) == cut(t, {i \in 1..Len(t) : Ch(t, i) # "="})
    IN  unpadded(RemoveSpaces(str, 1))

B32Valid(str) ==
    LET valid(t) == \A i \in 1..Len(t) : PosIn(B32, Ch(t, i)) > 0
    IN  valid(B32Clean(str))

\* bytes of the cleaned text from position i on; value holds the bits pending
RECURSIVE B32DecodeFrom(_, _, _, _)
B32DecodeFrom(s, i, value, bits) ==
    IF i > Len(s) THEN <<>>
    ELSE LET v == value * 32 + (PosIn(B32, Ch(s, i)) - 1)
             b == bits + 5
         IN  IF b >= 8
             THEN <<v \div Pow2(b - 8)>> \o B32DecodeFrom(s, i + 1, v % Pow2(b - 8), b - 8)
             ELSE B32DecodeFrom(s, i + 1, v, b)

base32Decode(str) == B32DecodeFrom(B32Clean(str), 1, 0, 0)

RECURSIVE B32EncodeFrom(_, _, _, _)
B32EncodeFrom(bytes, i, value, bits) ==
    IF bits >= 5
    THEN Ch(B32, (value \div Pow2(bits - 5)) + 1)
         \o B32EncodeFrom(bytes, i, value % Pow2(bits - 5), bits - 5)
    ELSE IF i > Len(bytes)
    THEN (IF bits > 0 THEN Ch(B32, ((value * Pow2(5 - bits)) % 32) + 1) ELSE "")
    ELSE B32EncodeFrom(bytes, i + 1, value * 256 + bytes[i], bits + 8)

base32Encode(bytes) == B32EncodeFrom(bytes, 1, 0, 0)

\* Secret.fromBase32(str).base32
SecretBase32(str) == base32Encode(base32Decode(str))

(***************************************************************************)
(* OTPAuth.URI.parse of the otpauth library, which parseOTPAuthURL calls.  *)
(* The outcome is the TOTP/HOTP object it builds (the fields the caller    *)
(* reads; 0 and "" stand for undefined) or the message of the error it     *)
(* throws.                                                                 *)
(***************************************************************************)
\* POSITIVE_INTEGER_REGEX  /^\+?[1-9]\d*$/
PositiveInteger(s) ==
    LET d == IF StartsWith(s, "+") THEN Sub(s, 2, Len(s)) ELSE s
    IN  d # "" /\ AllDigits(d) /\ Ch(d, 1) # "0"

\* INTEGER_REGEX  /^[+-]?\d+$/
IntegerText(s) ==
    LET d == IF StartsWith(s, "+") \/ StartsWith(s, "-") THEN Sub(s, 2, Len(s)) ELSE s
    IN  d # "" /\ AllDigits(d)

\* SECRET_REGEX  /^[2-7A-Z]+=*$/i
SecretText(s) ==
    LET K == {i \in 1..Len(s) : Ch(s, i) # "="}
        body == IF K = {} THEN "" ELSE Sub(s, 1, MaxOf(K))
    IN  body # "" /\ \A i \in 1..Len(body) : PosIn(B32, UpperCh(Ch(body, i))) > 0

\* ALGORITHM_REGEX  /^SHA(?:1|224|256|384|512|3-224|3-256|3-384|3-512)$/i
AlgorithmText(s) ==
    ToUpperCase(s) \in {"SHA1", "SHA224", "SHA256", "SHA384", "SHA512",
                        "SHA3-224", "SHA3-256", "SHA3-384", "SHA3-512"}

ParamKeyChar(c) == IsUpper(c) \/ IsLower(c) \/ IsDigit(c) \/ c \in {".", "~", "_", "-"}

\* one "key=value" piece of the parameter group:  [A-Z0-9.~_-]+=[^?&]*
ParamPieceOk(p) ==
    LET e == IndexOf(p, "=")
    IN  e > 1 /\ \A i \in 1..(e - 1) : ParamKeyChar(Ch(p, i))

\* OTPURI_REGEX
\*   /^otpauth:\/\/([ht]otp)\/(.+)\?([A-Z0-9.~_-]+=[^?&]*(?:&[A-Z0-9.~_-]+=[^?&]*)*)$/i
\* the groups of the match: the '?' it takes is the last one of the text
OTPURIMatch(uri) ==
    LET groups(low, q, label, ps) ==
            IF /\ StartsWith(low, "otpauth://totp/") \/ StartsWith(low, "otpauth://hotp/")
               /\ q > 16
               /\ \A i \in 1..Len(label) : Ch(label, i) \notin {"\n", "\r"}
               /\ \A i \in 1..Len(ps) : ParamPieceOk(ps[i])
            THEN [ok |-> TRUE, type |-> Sub(low, 11, 14), label |-> label, params |-> ps]
            ELSE [ok |-> FALSE, type |-> "", label |-> "", params |-> <<>>]
        at(q) == groups(ToLowerCase(uri), q, Sub(uri, 16, q - 1),
                        Split(Sub(uri, q + 1, Len(uri)), "&"))
    IN  at(LastIndexOf(uri, "?"))

\* uriGroups[2].split(/(?::|%3A) *(.+)/i, 2): one or two parts
LabelSplit(g) ==
    LET sepLen(i) == IF Ch(g, i) = ":" THEN 1
                     ELSE IF i + 2 <= Len(g) /\ ToLowerCase(Sub(g, i, i + 2)) = "%3a" THEN 3
                     ELSE 0
        \* r: the text after the separator; K: the positions of its non-spaces
        capture(r, K) == IF K = {} THEN Sub(r, Len(r), Len(r)) ELSE Sub(r, MinOf(K), Len(r))
        rest(i, r) == <<Sub(g, 1, i - 1), capture(r, {j \in 1..Len(r) : Ch(r, j) # " "})>>
        at(i, n) == rest(i, Sub(g, i + n, Len(g)))
        first(C) == IF C = {} THEN <<g>> ELSE at(MinOf(C), sepLen(MinOf(C)))
        seps(n) == {i \in 1..Len(g) : n[i] > 0 /\ i + n[i] <= Len(g)}
    IN  first(seps([i \in 1..Len(g) |-> sepLen(i)]))

\* the parameter object: <<key, value>> pairs, percent-decoded, keys in lower case
LibParams(ps) ==
    LET param(k, v) == [ok |-> k.ok /\ v.ok, key |-> ToLowerCase(k.s), val |-> v.s]
        piece(p, e) == param(decodeURIComponent(Sub(p, 1, e - 1)),
                             decodeURIComponent(Sub(p, e + 1, Len(p))))
    IN  [i \in 1..Len(ps) |-> piece(ps[i], IndexOf(ps[i], "="))]

\* uriParams[key]: the last assignment wins; Null when never assigned
LibParam(params, key) ==
    LET H == {i \in 1..Len(params) : params[i].key = key}
    IN  IF H = {} THEN Null ELSE Some(params[MaxOf(H)].val)

LibError(msg) ==
    [ok |-> FALSE, isError |-> TRUE, message |-> msg, type |-> "", label |-> "", issuer |-> "",
     hasSecret |-> FALSE, secret |-> "", algorithm |-> "", digits |-> 0, period |-> 0]

\* a URI parser that ignores the digits parameter
LibObject_digitsIgnored(type, label, issuer, hasSecret, secret, algorithm, digits, period) ==
    [ok |-> TRUE, isError |-> FALSE, message |-> "", type |-> type, label |-> label, issuer |-> issuer,
     hasSecret |-> hasSecret, secret |-> secret, algorithm |-> algorithm,
     digits |-> 6, period |-> period]

LibObject(type, label, issuer, hasSecret, secret, algorithm, digits, period) ==
    [ok |-> TRUE, isError |-> FALSE, message |-> "", type |-> type, label |-> label, issuer |-> issuer,
     hasSecret |-> hasSecret, secret |-> secret, algorithm |-> algorithm,
     digits |-> digits, period |-> period]

URIparse(uri) ==
    LET build(type, label, issuer, counter, period, secret, algorithm, digits) ==
            IF type = "hotp" /\ ~(counter.has /\ IntegerText(counter.v))
            THEN LibError("Missing or invalid 'counter' parameter")
            ELSE IF type = "totp" /\ period.has /\ ~PositiveInteger(period.v)
                 THEN LibError("Invalid 'period' parameter")
            ELSE IF ~(secret.has /\ SecretText(secret.v))
                 THEN LibError("Missing or invalid 'secret' parameter")
            ELSE IF algorithm.has /\ ~AlgorithmText(algorithm.v)
                 THEN LibError("Invalid 'algorithm' parameter")
            ELSE IF digits.has /\ ~PositiveInteger(digits.v)
                 THEN LibError("Invalid 'digits' parameter")
            ELSE LibObject("", label, issuer, TRUE, SecretBase32(secret.v),
                           IF algorithm.has THEN ToUpperCase(algorithm.v) ELSE "SHA1",
                           IF digits.has THEN ParseInt(digits.v) ELSE 6,
                           IF type = "totp" THEN (IF period.has THEN ParseInt(period.v) ELSE 30)
                           ELSE 0)
        \* dparts: the decoded parts of the label; issuerP: the issuer parameter
        issuerOf(dparts, issuerP) ==
            IF Len(dparts) = 2 /\ (~issuerP.has \/ issuerP.v = "") THEN dparts[1].s
            ELSE issuerP.v
        decoded(type, dparts, params) ==
            IF \E i \in 1..Len(dparts) : ~dparts[i].ok THEN LibError("URI malformed")
            ELSE IF \E i \in 1..Len(params) : ~params[i].ok THEN LibError("URI malformed")
            ELSE build(type, dparts[Len(dparts)].s,
                       issuerOf(dparts, LibParam(params, "issuer")),
                       LibParam(params, "counter"), LibParam(params, "period"),
                       LibParam(params, "secret"), LibParam(params, "algorithm"),
                       LibParam(params, "digits"))
        label(type, parts, params) ==
            decoded(type, [i \in 1..Len(parts) |-> decodeURIComponent(parts[i])], params)
        matched(m) ==
            IF ~m.ok THEN LibError("Invalid URI format")
            ELSE label(m.type, LabelSplit(m.label), LibParams(m.params))
    IN  matched(OTPURIMatch(uri))

(***************************************************************************)
(* parseOTPAuthURL (utils/otp.ts).                                         *)
(*                                                                         *)
(* An outcome is a record: kind = "credential" (the returned object),      *)
(* "throw" (message of the Error thrown to the caller), "null" (return     *)
(* null) or "retry" (the catch block is about to call parseOTPAuthURL      *)
(* again on modifiedUrl).  trace lists the classification paths entered,   *)
(* in order; defaulted tells that the 'Unknown Account' pair was used.     *)
(***************************************************************************)
InvalidFormatMsg ==
    "The QR code does not contain a valid authentication URL. Please check the format."

MissingSecretMsg ==
    "The QR code is missing the required secret key. Please ensure it contains a valid secret."

UnsupportedTypeMsg ==
    "This type of authentication is not supported. Please use TOTP or HOTP."

RetryFailedMsg ==
    "Could not determine the authentication type. Please check the QR code."

Outcome(kind, name, issuer, secret, algorithm, digits, period, message, defaulted) ==
    [kind |-> kind, name |-> name, issuer |-> issuer, secret |-> secret,
     algorithm |-> algorithm, digits |-> digits, period |-> period,
     message |-> message, defaulted |-> defaulted, trace |-> <<>>, modifiedUrl |-> ""]

Credential(name, issuer, secret, algorithm, digits, period, defaulted) ==
    Outcome("credential", name, issuer, secret, algorithm, digits, period, "", defaulted)

Throw(message) == Outcome("throw", "", "", "", "", 0, 0, message, FALSE)

ReturnNull == Outcome("null", "", "", "", "", 0, 0, "", FALSE)

\* no call made yet
NoParse == Outcome("none", "", "", "", "", 0, 0, "", FALSE)

\* the same search without the regular expression's i flag
otpauthMatch_caseSensitive(text) ==
    LET i == IndexOf(text, "otpauth://")
        e == FirstOf(text, WhiteSpace \cup {"\"", "'"}, i + 10)
    IN  IF i = 0 THEN Null ELSE Some(Sub(text, i, e - 1))

\* normalizedUrl.match(/otpauth:\/\/[^\s"']*/i): the match, Null when there is none
otpauthMatch(text) ==
    LET i == IndexOf(ToLowerCase(text), "otpauth://")
        e == FirstOf(text, WhiteSpace \cup {"\"", "'"}, i + 10)
    IN  IF i = 0 THEN Null ELSE Some(Sub(text, i, e - 1))

IsBase32Char(c) == PosIn(B32, UpperCh(c)) > 0

\* normalizedUrl.replace(/[^A-Z2-7]/gi, '')
RECURSIVE CleanSecretFrom(_, _)
CleanSecretFrom(s, i) ==
    IF i > Len(s) THEN ""
    ELSE (IF IsBase32Char(Ch(s, i)) THEN Ch(s, i) ELSE "") \o CleanSecretFrom(s, i + 1)

cleanSecret(text) == CleanSecretFrom(text, 1)

MigrationPrefix == "otpauth-migration://offline?data="

\* the migration branch: outcome of the inner try/catch
MigrationPath(normalizedUrl) ==
    LET parts == Split(normalizedUrl, MigrationPrefix)
        migrationData == IF Len(parts) >= 2 THEN parts[2] ELSE ""
    IN  IF migrationData = "" THEN Throw("Could not parse migration data")
        ELSE Credential("Migrated Account", "Migration Service",
                        Substring0(migrationData, 32), "SHA1", 6, 30, FALSE)

\* the JSON branch: the synthesized otpauth URL, or ok = FALSE when the try block throws
JsonPath(normalizedUrl) ==
    LET opt(o, k) == IF JTruthy(JGet(o, k)) THEN "&" \o k \o "=" \o JStr(JGet(o, k)) ELSE ""
        url(o, secret, name, issuer) ==
            IF ~JTruthy(secret) THEN [ok |-> FALSE, otpauthUrl |-> ""]
            ELSE [ok |-> TRUE,
                  otpauthUrl |-> "otpauth://totp/" \o encodeURIComponent(JStr(issuer)) \o ":"
                                 \o encodeURIComponent(JStr(name)) \o "?secret=" \o JStr(secret)
                                 \o opt(o, "algorithm") \o opt(o, "digits") \o opt(o, "period")
                                 \o (IF JTruthy(issuer)
                                     THEN "&issuer=" \o encodeURIComponent(JStr(issuer)) ELSE "")]
        fields(o) ==
            url(o,
                JOr(JOr(JGet(o, "secret"), JGet(o, "secretKey")), JGet(o, "key")),
                JOr(JOr(JOr(JGet(o, "name"), JGet(o, "account")), JGet(o, "accountName")),
                    [t |-> "s", v |-> "Unknown"]),
                JOr(JOr(JOr(JGet(o, "issuer"), JGet(o, "service")), JGet(o, "provider")),
                    [t |-> "s", v |-> ""]))
        object(j) == IF ~j.ok THEN [ok |-> FALSE, otpauthUrl |-> ""] ELSE fields(j.obj)
    IN  object(JSONParseObject(normalizedUrl))

\* the query-string branch
QueryPath(normalizedUrl) ==
    LET opt(params, k) ==
            IF Truthy(ParamsGet(params, k)) THEN "&" \o k \o "=" \o ParamsGet(params, k).v
            ELSE ""
        url(params, secret, name, issuer) ==
            IF ~Truthy(secret) THEN [ok |-> FALSE, otpauthUrl |-> ""]
            ELSE [ok |-> TRUE,
                  otpauthUrl |-> "otpauth://totp/" \o encodeURIComponent(issuer.v) \o ":"
                                 \o encodeURIComponent(name.v) \o "?secret=" \o secret.v
                                 \o opt(params, "algorithm") \o opt(params, "digits")
                                 \o opt(params, "period")
                                 \o (IF Truthy(issuer)
                                     THEN "&issuer=" \o encodeURIComponent(issuer.v) ELSE "")]
        fields(params) ==
            url(params,
                Or(ParamsGet(params, "secret"), ParamsGet(params, "key")),
                Or(Or(ParamsGet(params, "name"), ParamsGet(params, "account")), Some("Unknown")),
                Or(Or(ParamsGet(params, "issuer"), ParamsGet(params, "service")), Some("")))
    IN  fields(URLSearchParams(IF Includes(normalizedUrl, "?")
                               THEN Split(normalizedUrl, "?")[2] ELSE normalizedUrl))

\* the bare-secret branch with the length test off by one
BarePath_strict(normalizedUrl) ==
    LET url(secret) ==
            IF Len(secret) > 16
            THEN [ok |-> TRUE, otpauthUrl |-> "otpauth://totp/Unknown?secret=" \o secret]
            ELSE [ok |-> FALSE, otpauthUrl |-> ""]
    IN  url(cleanSecret(normalizedUrl))

\* the bare-secret branch
BarePath(normalizedUrl) ==
    LET url(secret) ==
            IF Len(secret) >= 16
            THEN [ok |-> TRUE, otpauthUrl |-> "otpauth://totp/Unknown?secret=" \o secret]
            ELSE [ok |-> FALSE, otpauthUrl |-> ""]
    IN  url(cleanSecret(normalizedUrl))

\* "Add missing type if needed", applied to normalizedUrl
AddTypeToNormalized(normalizedUrl) ==
    LET low == ToLowerCase(normalizedUrl)
    IN  IF StartsWith(low, "otpauth://") /\ ~StartsWith(low, "otpauth://totp/")
           /\ ~StartsWith(low, "otpauth://hotp/")
        THEN ReplaceFirst(normalizedUrl, "otpauth://", "otpauth://totp/")
        ELSE normalizedUrl

\* "Add missing type if needed", applied to otpauthUrl
AddTypeToOtpauth(otpauthUrl) ==
    LET low == ToLowerCase(otpauthUrl)
    IN  IF ~Includes(low, "/totp/") /\ ~Includes(low, "/hotp/")
        THEN ReplaceFirst(otpauthUrl, "otpauth://", "otpauth://totp/")
        ELSE otpauthUrl

\* lines 292-391: the input classification.  stage = "done": the call is decided
\* (out is its outcome before the catch block); stage = "uri": otpauthUrl goes on
\* to OTPAuth.URI.parse
Classify(url) ==
    LET done(normalizedUrl, out, trace) ==
            [stage |-> "done", out |-> out, trace |-> trace,
             normalizedUrl |-> normalizedUrl, otpauthUrl |-> ""]
        uri(normalizedUrl, u, trace) ==
            [stage |-> "uri", out |-> ReturnNull, trace |-> trace,
             normalizedUrl |-> AddTypeToNormalized(normalizedUrl),
             otpauthUrl |-> AddTypeToOtpauth(u)]
        bare(normalizedUrl, b) ==
            IF b.ok THEN uri(normalizedUrl, b.otpauthUrl, <<"json", "query", "bare">>)
            ELSE done(normalizedUrl, Throw("Invalid OTP Auth URL format"),
                      <<"json", "query", "bare">>)
        query(normalizedUrl, q) ==
            IF q.ok THEN uri(normalizedUrl, q.otpauthUrl, <<"json", "query">>)
            ELSE bare(normalizedUrl, BarePath(normalizedUrl))
        json(normalizedUrl, j) ==
            IF j.ok THEN uri(normalizedUrl, j.otpauthUrl, <<"json">>)
            ELSE query(normalizedUrl, QueryPath(normalizedUrl))
        otpauth(normalizedUrl, m) ==
            IF m.has THEN uri(normalizedUrl, m.v, <<"otpauth">>)
            ELSE json(normalizedUrl, JsonPath(normalizedUrl))
        trimmed(normalizedUrl) ==
            IF StartsWith(normalizedUrl, "otpauth-migration://")
            THEN done(normalizedUrl, MigrationPath(normalizedUrl), <<"migration">>)
            ELSE otpauth(normalizedUrl, otpauthMatch(normalizedUrl))
    IN  trimmed(Trim(url))

\* the identifier check with its condition never met
EnsureIdentifier_skipped(accountName, issuerName) ==
    [name |-> accountName, issuer |-> issuerName, defaulted |-> FALSE]

\* lines 457-461: "Ensure we have at least some identifier"
EnsureIdentifier(accountName, issuerName) ==
    IF accountName = "" /\ issuerName = ""
    THEN [name |-> "Unknown Account", issuer |-> "Unknown Service", defaulted |-> TRUE]
    ELSE [name |-> accountName, issuer |-> issuerName, defaulted |-> FALSE]

\* lines 420-461: account name and issuer from the parsed object
\* (label: parsedOtp.label, issuer: parsedOtp.issuer)
ResolveNames(label, issuer, otpauthUrl) ==
    LET fromPath(u, name, issuerName, lastPart) ==
            EnsureIdentifier(
                IF name = "" /\ u.ok /\ lastPart # "" /\ lastPart \notin {"totp", "hotp"}
                   /\ decodeURIComponent(lastPart).ok
                THEN decodeURIComponent(lastPart).s
                ELSE name,
                issuerName)
        path(u, name, issuerName, pathParts) ==
            fromPath(u, name, issuerName, pathParts[Len(pathParts)])
        fromLabel(u, issuerName, labelParts) ==
            path(u,
                 IF Len(labelParts) > 1 THEN Trim(labelParts[2]) ELSE label,
                 IF Len(labelParts) > 1 /\ issuerName = "" THEN Trim(labelParts[1])
                 ELSE issuerName,
                 Split(u.pathname, "/"))
        fromQuery(u) ==
            fromLabel(u,
                      IF issuer # "" THEN issuer
                      ELSE IF u.ok
                           THEN Or(ParamsGet(URLSearchParams(u.search), "issuer"), Some("")).v
                      ELSE "",
                      Split(label, ":"))
    IN  fromQuery(URLParse(otpauthUrl))

\* lines 394-470: from the outcome of OTPAuth.URI.parse to the value returned
\* or the Error thrown inside the try block
Finish(lib, normalizedUrl, otpauthUrl) ==
    LET returned(secret, names) ==
            Credential(names.name, names.issuer, secret,
                       IF lib.algorithm = "" THEN "SHA1" ELSE lib.algorithm,
                       IF lib.digits = 0 THEN 6 ELSE lib.digits,
                       IF lib.period = 0 THEN 30 ELSE lib.period,
                       names.defaulted)
        fromQuery(qsecret) ==
            IF ~Truthy(qsecret) THEN Throw("Missing secret key")
            ELSE IF ~B32Valid(qsecret.v) THEN Throw("Invalid character found")
            ELSE returned(SecretBase32(qsecret.v),
                          ResolveNames(lib.label, lib.issuer, otpauthUrl))
        fallback(u) ==
            IF ~u.ok THEN Throw("Invalid URL")
            ELSE fromQuery(ParamsGet(URLSearchParams(u.search), "secret"))
        typed(type) ==
            IF ToLowerCase(type) \notin {"totp", "hotp"}
            THEN Throw("Unsupported OTP type: " \o type \o ". Only TOTP and HOTP are supported.")
            ELSE IF lib.hasSecret
                 THEN returned(lib.secret, ResolveNames(lib.label, lib.issuer, otpauthUrl))
            ELSE fallback(URLParse(normalizedUrl))
    IN  IF ~lib.ok THEN (IF lib.isError THEN Throw(lib.message) ELSE ReturnNull)
        ELSE typed(IF lib.type = "" THEN "totp" ELSE lib.type)

\* lines 471-504: the catch block, applied to what the try block produced
Catch(out, normalizedUrl) ==
    IF out.kind # "throw" THEN out
    ELSE IF Includes(out.message, "Invalid OTP Auth URL format") THEN Throw(InvalidFormatMsg)
    ELSE IF Includes(out.message, "Missing secret key") THEN Throw(MissingSecretMsg)
    ELSE IF Includes(out.message, "Unsupported OTP type") THEN Throw(UnsupportedTypeMsg)
    ELSE IF Includes(out.message, "Missing OTP type")
         THEN [Throw(out.message) EXCEPT
                  !.kind = "retry",
                  !.modifiedUrl = ReplaceFirst(normalizedUrl, "otpauth://", "otpauth://totp/")]
    ELSE out

\* one execution of the function body up to, and not including, the recursive
\* call of the retry; c is the classification of the argument and lib is
\* what OTPAuth.URI.parse does on c.otpauthUrl.  The value handed to Catch is
\* what the try block produced.
Attempt(c, lib) ==
    [Catch(IF c.stage = "done" THEN c.out ELSE Finish(lib, c.normalizedUrl, c.otpauthUrl),
           c.normalizedUrl)
     EXCEPT !.trace = c.trace]

\* the recursive call's outcome as the retry's try/catch hands it on
AfterRetry(inner) ==
    IF inner.kind = "throw" THEN [Throw(RetryFailedMsg) EXCEPT !.trace = inner.trace]
    ELSE inner

\* c: the classification of the argument; lib: the outcome of
\* OTPAuth.URI.parse(otpauthUrl); a: the outcome of the body; on "retry" the
\* catch block returns what parseOTPAuthURL(modifiedUrl) returns
RECURSIVE parseOTPAuthURL(_)
parseOTPAuthURL(url) ==
    CHOOSE r \in
        {IF a.kind = "retry"
         THEN [AfterRetry(parseOTPAuthURL(a.modifiedUrl)) EXCEPT !.trace = a.trace \o @]
         ELSE a :
         a \in UNION {{Attempt(c, lib) : lib \in {URIparse(c.otpauthUrl)}} :
                      c \in {Classify(url)}}} : TRUE

(***************************************************************************)
(* The texts handed to parseOTPAuthURL: otpauth URIs assembled from        *)
(* scheme, type segment, label and query; URIs embedded in other text;     *)
(* migration URIs; JSON objects; query strings; bare secrets.              *)
(***************************************************************************)
S16 == "JBSWY3DPEHPK3PXP"

Schemes == {"otpauth://", "OTPAUTH://"}

TypeSegments == {"totp/", "hotp/", "TOTP/", "foo/", ""}

Labels ==
    {"Unknown", "alice", "Example:alice@example.com", "Example:alice:bob", "a:b:c:d",
     "Example%3Aalice", "Acme:%20", ":", ":::/", "x::", "a?b", "%zz", "totp/"}

Queries ==
    {"", "?secret=", "?issuer=Example",
     "?secret=" \o S16,
     "?secret=" \o S16 \o "&issuer=Example",
     "?secret=" \o S16 \o "&issuer=",
     "?secret=" \o S16 \o "&counter=1",
     "?secret=" \o S16 \o "&period=0",
     "?secret=" \o S16 \o "&algorithm=MD5",
     "?secret=jbswy3dpehpk3pxp&digits=8&period=60&algorithm=sha256",
     "?secret=" \o S16 \o "&counter=1&period=60&digits=8&algorithm=SHA512",
     "?secret=JBSW%20Y3DP"}

UriInputs ==
    {sc \o ty \o la \o qu : sc \in Schemes, ty \in TypeSegments, la \in Labels, qu \in Queries}

EmbeddedInputs ==
    {pre \o "otpauth://totp/Example:alice?secret=" \o S16 \o post :
        pre \in {" ", "scan: ", "{\"url\":\"", "url="}, post \in {"", " ", "\"}", "&x=1"}}

MigrationInputs ==
    {pre \o "otpauth-migration://" \o rest :
        pre \in {"", " "},
        rest \in {"", "offline", "offline?data=", "offline?data=CjEKCkhlbGxvId6tvu8SGEV4YW1wbGU6YWxpY2VAZ21haWw",
                  "offline?data=" \o S16, "offline?data=otpauth://totp/a?secret=" \o S16,
                  "offline?data=secret=" \o S16, "offline?data={\"secret\":\"" \o S16 \o "\"}"}}

\* the members of a JSON object, joined by commas
RECURSIVE JoinMembers(_, _)
JoinMembers(ms, sep) ==
    IF ms = <<>> THEN ""
    ELSE IF ms[1] = "" THEN JoinMembers(Tail(ms), sep)
    ELSE LET r == JoinMembers(Tail(ms), sep)
         IN  IF r = "" THEN ms[1] ELSE ms[1] \o sep \o r

JsonInputs ==
    {"{" \o JoinMembers(<<se, na, is, ex>>, ",") \o "}" :
        se \in {"", "\"secret\":\"" \o S16 \o "\"", "\"secretKey\":\"" \o S16 \o "\"",
                "\"key\":\"jbswy3dpehpk3pxp\"", "\"secret\":\"\"", "\"secret\":null"},
        na \in {"", "\"name\":\"Bob\"", "\"account\":\"al@x.io\"",
                "\"name\":\"ABCDEFGHIJKLMNOPQRST\"", "\"name\":\"alice:bob\""},
        is \in {"", "\"issuer\":\"Acme\"", "\"service\":\"My Co\""},
        ex \in {"", "\"digits\":8", "\"algorithm\":\"SHA256\",\"period\":60", "\"digits\":0"}}

QueryInputs ==
    {base \o JoinMembers(<<se, na, is, ex>>, "&") :
        base \in {"", "https://example.com/setup?"},
        se \in {"", "secret=" \o S16, "key=" \o S16, "secret="},
        na \in {"", "name=Bob", "account=al%40x.io"},
        is \in {"", "issuer=Acme", "service=My+Co"},
        ex \in {"", "digits=8&period=60"}}

\* bare secrets: the first n characters of a text, for every n up to MaxBareLen
MaxBareLen == 18

BareTexts ==
    {"JBSWY3DPEHPK3PXPJBSWY3DPEHPK3PXP", "jbswy3dpehpk3pxpjbswy3dpehpk3pxp",
     "JBSW Y3DP EHPK 3PXP JBSW Y3DP EHPK 3PXP", "not a url, not a secret either",
     "0189-JBSW-0189-Y3DP-0189-EHPK-0189-3PXP-0189-JBSW"}

BareInputs ==
    {Substring0(t, n) : t \in BareTexts, n \in 0..(2 * MaxBareLen)}

Inputs ==
    UriInputs \cup EmbeddedInputs \cup MigrationInputs \cup JsonInputs
        \cup QueryInputs \cup BareInputs

(***************************************************************************)
(* getTimeRemaining (utils/otp.ts).                                        *)
(***************************************************************************)
\* a countdown that starts one second too low
getTimeRemaining_zeroBased(period, clock) == period - 1 - (clock % period)

getTimeRemaining(period, clock) == period - (clock % period)

(***************************************************************************)
(* generateTOTP (utils/otp.ts) and the calls it makes to the otpauth       *)
(* library: Secret.fromBase32, new TOTP, TOTP.generate.  The HMAC digest   *)
(* is an input of the model: truncated is the 31-bit value the dynamic     *)
(* truncation takes from it.                                               *)
(***************************************************************************)
NoCode == [called |-> FALSE, result |-> "", counter |-> 0, failed |-> FALSE, threw |-> FALSE]

\* the call returned result; counter is the moving factor that was hashed
Code(result, counter) ==
    [called |-> TRUE, result |-> result, counter |-> counter, failed |-> FALSE, threw |-> FALSE]

\* the catch block: return 'ERROR'
CodeError ==
    [called |-> TRUE, result |-> "ERROR", counter |-> 0, failed |-> TRUE, threw |-> FALSE]

\* String(n), n >= 0
RECURSIVE NumberText(_)
NumberText(n) ==
    IF n < 10 THEN Ch(DIGITS, n + 1) ELSE NumberText(n \div 10) \o Ch(DIGITS, (n % 10) + 1)

\* s.padStart(n, "0")
RECURSIVE padStart(_, _)
padStart(s, n) == IF Len(s) >= n THEN s ELSE padStart("0" \o s, n)

\* a generate that does not pad
HOTPgenerate_unpadded(truncated, digits) == NumberText(truncated % (10 ^ digits))

\* HOTP.generate: otp = truncated % 10 ** digits; otp.toString().padStart(digits, "0")
HOTPgenerate(truncated, digits) == padStart(NumberText(truncated % (10 ^ digits)), digits)

\* TOTP.generate: counter = Math.floor(timestamp / 1000 / period); a period of 0
\* gives Infinity, which is hashed as eight zero bytes
TOTPcounter(clock, period) == IF period > 0 THEN clock \div period ELSE 0

\* a generateTOTP without its try/catch
generateTOTP_noCatch(secret, algorithm, digits, period, clock, truncated) ==
    IF ~B32Valid(secret) \/ ~AlgorithmText(algorithm)
    THEN [called |-> TRUE, result |-> "", counter |-> 0, failed |-> TRUE, threw |-> TRUE]
    ELSE Code(HOTPgenerate(truncated, digits), TOTPcounter(clock, period))

\* lines 251-274; Secret.fromBase32 throws on a character outside the Base32
\* alphabet and the library throws on an unknown hash function, both inside try
generateTOTP(secret, algorithm, digits, period, clock, truncated) ==
    IF ~B32Valid(secret) \/ ~AlgorithmText(algorithm)
    THEN CodeError
    ELSE Code(HOTPgenerate(truncated, digits), TOTPcounter(clock, period))

(***************************************************************************)
(* Clock specification: getTimeRemaining over every clock value/period.    *)
(***************************************************************************)
IdleCode == genSource = "" /\ genArgs = <<>> /\ genOut = NoCode

IdleParse == parseArg = "" /\ parsed = NoParse

IdleRetry ==
    rUrl = "" /\ rDepth = 0 /\ rRetries = 0 /\ rStatus = "idle" /\ rResult = NoParse

IdleAsync ==
    /\ calls = [c \in CallIds |-> NoCall]
    /\ qr = [isScanning |-> TRUE, scanSuccess |-> FALSE, scanError |-> FALSE]
    /\ timers = {} /\ onScanCall = [data |-> "", cancelled |-> FALSE]
    /\ importer = [rendered |-> "initial", code |-> "", adds |-> 0]

IdleVault ==
    /\ flag = "" /\ item = [kind |-> "none"] /\ storeCall = [op |-> "none"]
    /\ exported = [text |-> "", accounts |-> <<>>, read |-> TRUE]

IdleUI ==
    /\ importState = "initial" /\ errorMessage = "" /\ importedCount = 0
    /\ tiPc = "idle" /\ tiAccount = NoParse /\ tiList = <<>>
    /\ scanning = FALSE /\ alert = "" /\ asPc = "idle" /\ asAccount = NoParse /\ asList = <<>>
    /\ unhandled = FALSE /\ accounts = <<>>

InitTime ==
    /\ now \in 0..MaxNow
    /\ trPeriod = 0 /\ trResult = 0 /\ IdleCode
    /\ IdleParse /\ IdleRetry /\ IdleUI /\ IdleVault /\ IdleAsync

\* one second passes
Tick ==
    /\ now < MaxNow
    /\ now' = now + 1
    /\ UNCHANGED <<trPeriod, trResult, genSource, genArgs, genOut, parseVars, retryVars, uiVars,
                   vaultVars, asyncVars>>

\* a caller polls getTimeRemaining(period)
GetTimeRemaining ==
    \E period \in 1..MaxPeriod :
        /\ trPeriod' = period
        /\ trResult' = getTimeRemaining(period, now)
        /\ UNCHANGED <<now, genSource, genArgs, genOut, parseVars, retryVars, uiVars, vaultVars, asyncVars>>

NextTime == Tick \/ GetTimeRemaining

SpecTime == InitTime /\ [][NextTime]_vars

(***************************************************************************)
(* Code specification: generateTOTP called at any clock value, on given    *)
(* arguments or on the fields of a credential that parseOTPAuthURL         *)
(* returned.                                                               *)
(***************************************************************************)
CodeSecrets == {S16, "jbsw y3dp ehpk 3pxp", "not base32!"}

CodeAlgorithms == {"SHA1", "SHA256", "SHA512", "MD5"}

CodeDigits == {6, 7, 8, 0}

CodePeriods == {30, 0}

\* values of the dynamic truncation
Truncations == {0, 999999, 2147483647}

CodeUris ==
    {"otpauth://totp/Example:alice?secret=" \o S16,
     "otpauth://totp/alice?secret=" \o S16 \o "&period=7&digits=8&algorithm=SHA256",
     "otpauth://hotp/Example:alice?secret=" \o S16 \o "&counter=1",
     "otpauth://hotp/alice?secret=" \o S16 \o "&counter=5&digits=8"}

InitCode ==
    /\ now = 0 /\ trPeriod = 0 /\ trResult = 0 /\ IdleCode
    /\ IdleParse /\ IdleRetry /\ IdleUI /\ IdleVault /\ IdleAsync

\* one second passes
CodeTick ==
    /\ now < MaxNow
    /\ now' = now + 1
    /\ UNCHANGED <<trPeriod, trResult, genSource, genArgs, genOut, parseVars, retryVars, uiVars,
                   vaultVars, asyncVars>>

\* a caller runs generateTOTP(secret, algorithm, digits, period); the model
\* follows one call
GenerateTOTP ==
    /\ ~genOut.called
    /\ \E secret \in CodeSecrets, algorithm \in CodeAlgorithms, digits \in CodeDigits,
          period \in CodePeriods, truncated \in Truncations :
           /\ genSource' = ""
           /\ genArgs' = <<secret, algorithm, digits, period>>
           /\ genOut' = generateTOTP(secret, algorithm, digits, period, now, truncated)
    /\ UNCHANGED <<now, trPeriod, trResult, parseVars, retryVars, uiVars, vaultVars, asyncVars>>

\* a caller runs generateTOTP on the fields of the credential parsed from a URI
GenerateForCredential ==
    /\ ~genOut.called
    /\ \E uri \in CodeUris :
          \E c \in {parseOTPAuthURL(uri)} :
             /\ c.kind = "credential"
             /\ genSource' = uri
             /\ genArgs' = <<c.secret, c.algorithm, c.digits, c.period>>
             /\ \E truncated \in Truncations :
                   genOut' = generateTOTP(c.secret, c.algorithm, c.digits, c.period,
                                          now, truncated)
    /\ UNCHANGED <<now, trPeriod, trResult, parseVars, retryVars, uiVars, vaultVars, asyncVars>>

NextCode == CodeTick \/ GenerateTOTP \/ GenerateForCredential

SpecCode == InitCode /\ [][NextCode]_vars

(***************************************************************************)
(* Parser specification: one call of parseOTPAuthURL on every input text.  *)
(***************************************************************************)
IdleTime == now = 0 /\ trPeriod = 0 /\ trResult = 0 /\ IdleCode

Init ==
    /\ parseArg \in Inputs
    /\ parsed = NoParse
    /\ IdleTime /\ IdleRetry /\ IdleUI /\ IdleVault /\ IdleAsync

\* the caller runs parseOTPAuthURL(parseArg) to completion
Parse ==
    /\ parsed = NoParse
    /\ parsed' = parseOTPAuthURL(parseArg)
    /\ UNCHANGED <<parseArg, timeVars, retryVars, uiVars, vaultVars, asyncVars>>

Next == Parse

Spec == Init /\ [][Next]_vars


(***************************************************************************)
(* Retry specification: the call stack of parseOTPAuthURL, one frame per   *)
(* step, with OTPAuth.URI.parse free to behave in any way (return any      *)
(* object or throw anything).                                              *)
(***************************************************************************)
MaxRetryDepth == 3

RetryInputs ==
    {"otpauth://totp/alice?secret=" \o S16, "otpauth://alice?secret=" \o S16,
     "OTPAUTH://alice?secret=" \o S16, "scan otpauth://hotp/x?secret=" \o S16,
     "{\"secret\":\"" \o S16 \o "\"}", "secret=" \o S16, S16, "not a url",
     "otpauth-migration://offline?data=" \o S16, "otpauth-migration://offline"}

\* what the URI parser may do on the text u
LibOutcomes(u) ==
    {URIparse(u),
     LibError("Missing OTP type"),
     LibError("Invalid URI format"),
     [LibError("") EXCEPT !.isError = FALSE],
     LibObject("motp", "alice", "", TRUE, S16, "SHA1", 6, 30),
     LibObject("totp", "alice", "", FALSE, "", "SHA1", 6, 30),
     LibObject("totp", "", "", TRUE, S16, "", 0, 0)}

InitRetry ==
    /\ rUrl \in RetryInputs
    /\ rDepth = 0 /\ rRetries = 0 /\ rStatus = "running" /\ rResult = NoParse
    /\ IdleTime /\ IdleParse /\ IdleUI /\ IdleVault /\ IdleAsync

\* the innermost frame runs its body and decides the call without a retry
RetryDecide ==
    /\ rStatus = "running"
    /\ \E c \in {Classify(rUrl)} : \E lib \in LibOutcomes(c.otpauthUrl) :
        \E a \in {Attempt(c, lib)} :
            /\ a.kind # "retry"
            /\ rResult' = a
            /\ rStatus' = IF rDepth = 0 THEN "done" ELSE "unwinding"
            /\ UNCHANGED <<rUrl, rDepth, rRetries, timeVars, parseVars, uiVars, vaultVars, asyncVars>>

\* the innermost frame's catch block calls parseOTPAuthURL(modifiedUrl)
RetryRecurse ==
    /\ rStatus = "running"
    /\ rDepth < MaxRetryDepth
    /\ \E c \in {Classify(rUrl)} : \E lib \in LibOutcomes(c.otpauthUrl) :
        \E a \in {Attempt(c, lib)} :
            /\ a.kind = "retry"
            /\ rUrl' = a.modifiedUrl
            /\ rDepth' = rDepth + 1
            /\ rRetries' = rRetries + 1
            /\ UNCHANGED <<rStatus, rResult, timeVars, parseVars, uiVars, vaultVars, asyncVars>>

\* a recursive call hands its outcome to the catch block that made it
RetryReturn ==
    /\ rStatus = "unwinding"
    /\ rResult' = AfterRetry(rResult)
    /\ rDepth' = rDepth - 1
    /\ rStatus' = IF rDepth = 1 THEN "done" ELSE "unwinding"
    /\ UNCHANGED <<rUrl, rRetries, timeVars, parseVars, uiVars, vaultVars, asyncVars>>

NextRetry == RetryDecide \/ RetryRecurse \/ RetryReturn

SpecRetry == InitRetry /\ [][NextRetry]_vars

(***************************************************************************)
(* The account store (utils/storage.ts) and the manual entry form          *)
(* (components/AddAccountManual.tsx).  A stored account is a record.  A    *)
(* property that an object lacks is a field the record lacks, and so is a  *)
(* number that is NaN, which JSON.stringify writes as null.  createdAt is  *)
(* the clock of the model in milliseconds.                                 *)
(***************************************************************************)
\* a.id === id
HasId(a, id) == "id" \in DOMAIN a /\ a.id = id

\* Crypto.randomUUID(): an identifier that no account of the list has
randomUUID(list) ==
    "uuid-" \o NumberText(CHOOSE n \in 1..(Len(list) + 1) :
                             \A i \in 1..Len(list) : ~HasId(list[i], "uuid-" \o NumberText(n)))

\* addAccount: the list it saves, [...accounts, {...account, id, createdAt}]
addAccount(list, account, clock) ==
    Append(list, [k \in DOMAIN account \cup {"id", "createdAt"} |->
                     CASE k = "id" -> randomUUID(list)
                       [] k = "createdAt" -> clock * 1000
                       [] OTHER -> account[k]])

\* updateAccount: accounts.findIndex(a => a.id === account.id)
FindIndex(list, id) ==
    IF \E i \in 1..Len(list) : HasId(list[i], id)
    THEN MinOf({i \in 1..Len(list) : HasId(list[i], id)}) ELSE 0

\* updateAccount: the list it saves (it saves nothing when the index is -1)
updateAccount(list, account) ==
    IF FindIndex(list, account.id) = 0 THEN list
    ELSE [list EXCEPT ![FindIndex(list, account.id)] = account]

\* deleteAccount: accounts.filter(account => account.id !== id)
RECURSIVE deleteAccount(_, _)
deleteAccount(list, id) ==
    IF list = <<>> THEN <<>>
    ELSE (IF HasId(Head(list), id) THEN <<>> ELSE <<Head(list)>>)
         \o deleteAccount(Tail(list), id)

\* importAccounts: the filter on data.accounts; name, issuer and secret are
\* strings whenever the object has them
RECURSIVE validAccounts(_)
validAccounts(entries) ==
    IF entries = <<>> THEN <<>>
    ELSE (IF {"name", "issuer", "secret"} \subseteq DOMAIN Head(entries)
          THEN <<Head(entries)>> ELSE <<>>)
         \o validAccounts(Tail(entries))

\* importAccounts(backupData), the backup given as what JSON.parse makes of it:
\* kind "malformed" (JSON.parse throws), "object" (no accounts array) or
\* "accounts".  ok: the value returned when saveAccounts resolves; save: the
\* list handed to saveAccounts, which replaces the stored list
importAccounts(backup) ==
    IF backup.kind # "accounts" THEN [ok |-> FALSE, saves |-> FALSE, save |-> <<>>]
    ELSE [ok |-> TRUE, saves |-> TRUE, save |-> validAccounts(backup.accounts)]

\* secret.replace(/\s+/g, '')
RECURSIVE RemoveWhitespace(_, _)
RemoveWhitespace(s, i) ==
    IF i > Len(s) THEN ""
    ELSE (IF Ch(s, i) \in WhiteSpace THEN "" ELSE Ch(s, i)) \o RemoveWhitespace(s, i + 1)

\* /^[A-Z2-7]+=*$/
Base32Regex(s) ==
    \E n \in 1..Len(s) :
        /\ \A i \in 1..n : PosIn(B32, Ch(s, i)) > 0
        /\ \A i \in (n + 1)..Len(s) : Ch(s, i) = "="

\* parseInt(text, 10) is NaN: the text does not start with a digit
IsNaNText(text) == text = "" \/ ~IsDigit(Ch(text, 1))

\* parseInt(text, 10) of a text that starts with a digit: its leading digits
LeadingInt(text) ==
    ParseInt(Sub(text, 1, FirstOf(text, {Ch(text, i) : i \in 1..Len(text)} \ {Ch(DIGITS, d) : d \in 1..10}, 1) - 1))

\* the object handed to onAdd
ManualAccount(form, normalizedSecret) ==
    [k \in {"name", "issuer", "secret", "algorithm"}
            \cup (IF IsNaNText(form.digits) THEN {} ELSE {"digits"})
            \cup (IF IsNaNText(form.period) THEN {} ELSE {"period"}) |->
        CASE k = "secret" -> normalizedSecret
          [] k = "digits" -> LeadingInt(form.digits)
          [] k = "period" -> LeadingInt(form.period)
          [] OTHER -> form[k]]

\* AddAccountManual.handleAdd: the alert it shows, or the object it hands to onAdd
handleAdd(form) ==
    IF form.name = "" \/ form.issuer = "" \/ form.secret = ""
    THEN [alert |-> "manualAdd.missingInfo", account |-> <<>>]
    ELSE IF ~Base32Regex(ToUpperCase(RemoveWhitespace(form.secret, 1)))
    THEN [alert |-> "manualAdd.invalidSecret", account |-> <<>>]
    ELSE [alert |-> "",
          account |-> ManualAccount(form, ToUpperCase(RemoveWhitespace(form.secret, 1)))]

(***************************************************************************)
(* Scan specification: the two screens that hand a scanned text to         *)
(* parseOTPAuthURL and store the credential with addAccount                *)
(* (components/TokenImporter.tsx, app/(tabs)/add.tsx, utils/storage.ts).   *)
(* A handler runs up to its await in one step; addAccount then reads the   *)
(* stored list and writes it back in two further steps.  One handler is in *)
(* flight per screen, and the importer is closed between scans.            *)
(***************************************************************************)
MaxAccounts == 1

\* the texts a scanner delivers
ScanInputs ==
    {"otpauth://totp/Example:alice?secret=" \o S16,
     "otpauth-migration://offline?data=" \o S16,
     "otpauth://totp/Unknown?secret=",
     "otpauth-migration://offline?data=",
     "https://example.com/?secret=" \o S16}

\* what AsyncStorage does during saveAccounts: the list is written, setItem
\* rejects (caught inside saveAccounts), or the read of the encryption flag rejects
StorageOutcomes == {"saved", "writeFailed", "flagReadFailed"}

\* data.startsWith('otpauth://') || data.startsWith('otpauth-migration://')
HasScanPrefix(data) == StartsWith(data, "otpauth://") \/ StartsWith(data, "otpauth-migration://")

\* the accountData object handed to addAccount
AccountData(out) ==
    [name |-> out.name, issuer |-> out.issuer, secret |-> out.secret,
     algorithm |-> out.algorithm, digits |-> out.digits, period |-> out.period]

\* handleScan with the inner try/catch around parseOTPAuthURL left out
HandleScanBody_noCatch(data) ==
    IF ~HasScanPrefix(data)
    THEN [state |-> "error", message |-> "qrScanner.invalidQrCodeDesc",
          account |-> NoParse, escaped |-> FALSE]
    ELSE CHOOSE r \in
            {IF out.kind = "throw"
             THEN [state |-> "processing", message |-> "", account |-> NoParse,
                   escaped |-> TRUE]
             ELSE IF out.kind # "credential"
             THEN [state |-> "error", message |-> "qrScanner.invalidQrCodeDesc",
                   account |-> NoParse, escaped |-> FALSE]
             ELSE [state |-> "processing", message |-> "", account |-> out,
                   escaped |-> FALSE] :
             out \in {parseOTPAuthURL(data)}} : TRUE

\* TokenImporter.handleScan up to "await addAccount": the import state and error
\* message it sets, the accountData it goes on with, and whether an exception
\* left it
HandleScanBody(data) ==
    IF ~HasScanPrefix(data)
    THEN [state |-> "error", message |-> "qrScanner.invalidQrCodeDesc",
          account |-> NoParse, escaped |-> FALSE]
    ELSE CHOOSE r \in
            {IF out.kind = "throw"
             THEN [state |-> "error", message |-> out.message, account |-> NoParse,
                   escaped |-> FALSE]
             ELSE IF out.kind # "credential"
             THEN [state |-> "error", message |-> "qrScanner.invalidQrCodeDesc",
                   account |-> NoParse, escaped |-> FALSE]
             ELSE [state |-> "processing", message |-> "", account |-> out,
                   escaped |-> FALSE] :
             out \in {parseOTPAuthURL(data)}} : TRUE

\* AddScreen.handleBarCodeScanned up to "await addAccount": the alert it shows
\* ("" : none yet) and the accountData it goes on with
BarCodeBody(data) ==
    IF ~HasScanPrefix(data) THEN [alert |-> "qrScanner.invalidQrCode", account |-> NoParse]
    ELSE CHOOSE r \in
            {IF out.kind = "throw"
             THEN [alert |-> "qrScanner.errorProcessingQr", account |-> NoParse]
             ELSE IF out.kind # "credential"
             THEN [alert |-> "qrScanner.invalidQrCode", account |-> NoParse]
             ELSE [alert |-> "", account |-> out] :
             out \in {parseOTPAuthURL(data)}} : TRUE

InitUI ==
    /\ IdleTime /\ IdleParse /\ IdleRetry /\ IdleUI /\ IdleVault /\ IdleAsync

\* TokenImporter: a method card is pressed
SelectMethod ==
    /\ importState = "initial"
    /\ importState' = "scanning"
    /\ UNCHANGED <<errorMessage, importedCount, tiPc, tiAccount, tiList, scanning, alert,
                   asPc, asAccount, asList, unhandled, accounts, timeVars, parseVars, retryVars,
                   vaultVars, asyncVars>>

\* TokenImporter: the scanner's onCancel
CancelScanner ==
    /\ importState = "scanning"
    /\ importState' = "initial"
    /\ UNCHANGED <<errorMessage, importedCount, tiPc, tiAccount, tiList, scanning, alert,
                   asPc, asAccount, asList, unhandled, accounts, timeVars, parseVars, retryVars,
                   vaultVars, asyncVars>>

\* TokenImporter.handleScan(data), from its start to the await of addAccount
\* or to its return
HandleScan ==
    /\ importState = "scanning"
    /\ Len(accounts) < MaxAccounts
    /\ \E data \in ScanInputs :
        \E b \in {HandleScanBody(data)} :
            /\ importState' = b.state
            /\ errorMessage' = IF b.state = "error" THEN b.message ELSE errorMessage
            /\ tiAccount' = b.account
            /\ tiPc' = IF b.escaped \/ b.state = "error" THEN "done" ELSE "adding"
            /\ unhandled' = (unhandled \/ b.escaped)
            /\ UNCHANGED <<importedCount, tiList, scanning, alert, asPc, asAccount, asList,
                           accounts, timeVars, parseVars, retryVars,
                   vaultVars, asyncVars>>

\* addAccount called by handleScan: getAccounts has answered ([] when the read
\* or the decoding failed)
ImporterGetAccounts ==
    /\ tiPc = "adding"
    /\ tiList' \in {accounts, <<>>}
    /\ tiPc' = "saving"
    /\ UNCHANGED <<importState, errorMessage, importedCount, tiAccount, scanning, alert,
                   asPc, asAccount, asList, unhandled, accounts, timeVars, parseVars,
                   retryVars,
                   vaultVars, asyncVars>>

\* addAccount called by handleScan: saveAccounts has settled, and handleScan
\* runs to its end
ImporterSaveAccounts ==
    /\ tiPc = "saving"
    /\ \E o \in StorageOutcomes :
        /\ accounts' = IF o = "saved" THEN addAccount(tiList, AccountData(tiAccount), now) ELSE accounts
        /\ importState' = IF o = "flagReadFailed" THEN "error" ELSE "success"
        /\ errorMessage' = IF o = "flagReadFailed" THEN "qrScanner.errorProcessingQrDesc"
                           ELSE errorMessage
        /\ importedCount' = IF o = "flagReadFailed" THEN importedCount ELSE 1
    /\ tiPc' = "done"
    /\ UNCHANGED <<tiAccount, tiList, scanning, alert, asPc, asAccount, asList, unhandled,
                   timeVars, parseVars, retryVars,
                   vaultVars, asyncVars>>

\* TokenImporter.handleRetry
HandleRetry ==
    /\ importState = "error"
    /\ importState' = "initial"
    /\ errorMessage' = ""
    /\ tiPc' = "idle"
    /\ UNCHANGED <<importedCount, tiAccount, tiList, scanning, alert, asPc, asAccount,
                   asList, unhandled, accounts, timeVars, parseVars, retryVars,
                   vaultVars, asyncVars>>

\* TokenImporter is closed (onClose) and mounted again with its initial state
CloseImporter ==
    /\ importState \in {"success", "error"}
    /\ importState' = "initial" /\ errorMessage' = "" /\ importedCount' = 0
    /\ tiPc' = "idle"
    /\ UNCHANGED <<tiAccount, tiList, scanning, alert, asPc, asAccount, asList, unhandled,
                   accounts, timeVars, parseVars, retryVars,
                   vaultVars, asyncVars>>

\* AddScreen.startScanning with a camera available
StartScanning ==
    /\ ~scanning /\ asPc \in {"idle", "done"}
    /\ scanning' = TRUE
    /\ alert' = ""
    /\ asPc' = "idle"
    /\ UNCHANGED <<importState, errorMessage, importedCount, tiPc, tiAccount, tiList,
                   asAccount, asList, unhandled, accounts, timeVars, parseVars, retryVars,
                   vaultVars, asyncVars>>

\* AddScreen: the scanner's onCancel
CancelScanning ==
    /\ scanning
    /\ scanning' = FALSE
    /\ UNCHANGED <<importState, errorMessage, importedCount, tiPc, tiAccount, tiList, alert,
                   asPc, asAccount, asList, unhandled, accounts, timeVars, parseVars,
                   retryVars,
                   vaultVars, asyncVars>>

\* AddScreen.handleBarCodeScanned(data), from its start to the await of
\* addAccount or to its return
HandleBarCodeScanned ==
    /\ scanning
    /\ Len(accounts) < MaxAccounts
    /\ \E data \in ScanInputs :
        \E b \in {BarCodeBody(data)} :
            /\ scanning' = FALSE
            /\ alert' = b.alert
            /\ asAccount' = b.account
            /\ asPc' = IF b.alert # "" THEN "done" ELSE "adding"
            /\ UNCHANGED <<importState, errorMessage, importedCount, tiPc, tiAccount, tiList,
                           asList, unhandled, accounts, timeVars, parseVars, retryVars,
                   vaultVars, asyncVars>>

\* addAccount called by handleBarCodeScanned: getAccounts has answered
ScreenGetAccounts ==
    /\ asPc = "adding"
    /\ asList' \in {accounts, <<>>}
    /\ asPc' = "saving"
    /\ UNCHANGED <<importState, errorMessage, importedCount, tiPc, tiAccount, tiList,
                   scanning, alert, asAccount, unhandled, accounts, timeVars, parseVars,
                   retryVars,
                   vaultVars, asyncVars>>

\* addAccount called by handleBarCodeScanned: saveAccounts has settled, and the
\* handler runs to its end
ScreenSaveAccounts ==
    /\ asPc = "saving"
    /\ \E o \in StorageOutcomes :
        /\ accounts' = IF o = "saved" THEN addAccount(asList, AccountData(asAccount), now) ELSE accounts
        /\ alert' = IF o = "flagReadFailed" THEN "qrScanner.errorProcessingQr"
                    ELSE "accountAdded.title"
    /\ asPc' = "done"
    /\ UNCHANGED <<importState, errorMessage, importedCount, tiPc, tiAccount, tiList,
                   scanning, asAccount, asList, unhandled, timeVars, parseVars, retryVars,
                   vaultVars, asyncVars>>

NextUI ==
    \/ SelectMethod \/ CancelScanner \/ HandleScan \/ ImporterGetAccounts
    \/ ImporterSaveAccounts \/ HandleRetry \/ CloseImporter
    \/ StartScanning \/ CancelScanning \/ HandleBarCodeScanned
    \/ ScreenGetAccounts \/ ScreenSaveAccounts

\* an await of AsyncStorage settles: the steps of a running addAccount are taken
SpecUI ==
    /\ InitUI /\ [][NextUI]_vars
    /\ WF_vars(ImporterGetAccounts) /\ WF_vars(ImporterSaveAccounts)
    /\ WF_vars(ScreenGetAccounts) /\ WF_vars(ScreenSaveAccounts)

(***************************************************************************)
(* Store specification: the stored account list under every operation that *)
(* writes it: the two scan handlers and the manual form (addAccount),      *)
(* updateAccount, deleteAccount and importAccounts.  A handler runs from   *)
(* its start to its end in one step.  getAccounts answers with the stored  *)
(* list, or with [] when the read fails.  What the screens display is the  *)
(* subject of the scan specification and is left as it is here.            *)
(***************************************************************************)
MaxStore == 2

\* the texts a scanner delivers
StoreScans ==
    {"otpauth://totp/Example:alice?secret=" \o S16,
     "otpauth://totp/alice?secret=" \o S16 \o "&algorithm=SHA384&digits=8",
     "otpauth-migration://offline?data=CjEKCkhlbGxvId6tvu8SGEV4YW1wbGU6YWxpY2VAZ21haWw",
     "otpauth://totp/Unknown?secret="}

\* what the handlers make of them
ImporterScans == [data \in StoreScans |-> HandleScanBody(data)]

ScreenScans == [data \in StoreScans |-> BarCodeBody(data)]

\* the fields of the manual entry form when Add is pressed
ManualForms ==
    {[name |-> "alice", issuer |-> "Example", secret |-> "jbsw y3dp ehpk 3pxp",
      algorithm |-> "SHA256", digits |-> "6", period |-> "30"],
     [name |-> "bob", issuer |-> "Acme", secret |-> S16,
      algorithm |-> "SHA1", digits |-> "0", period |-> ""],
     [name |-> "carol", issuer |-> "Acme", secret |-> "not base32!",
      algorithm |-> "SHA1", digits |-> "6", period |-> "30"],
     [name |-> "", issuer |-> "", secret |-> S16,
      algorithm |-> "SHA1", digits |-> "6", period |-> "30"]}

\* the objects of the accounts array of a backup
BackupAccounts ==
    {[id |-> "backup-1", name |-> "alice", issuer |-> "Example", secret |-> S16,
      algorithm |-> "SHA1", digits |-> 6, period |-> 30],
     [id |-> "backup-1", name |-> "carol", issuer |-> "Acme", secret |-> "not base32!",
      algorithm |-> "MD5", digits |-> 0, period |-> -1],
     [name |-> "bob", issuer |-> "", secret |-> "jbsw y3dp"],
     [name |-> "dave"]}

Backups ==
    {[kind |-> k, accounts |-> <<>>] : k \in {"malformed", "object", "accounts"}}
        \cup {[kind |-> "accounts", accounts |-> <<a>>] : a \in BackupAccounts}
        \cup {[kind |-> "accounts", accounts |-> p] :
                  p \in {q \in BackupAccounts \X BackupAccounts : q[1] # q[2]}}

InitStore ==
    /\ IdleTime /\ IdleParse /\ IdleRetry /\ IdleUI /\ IdleVault /\ IdleAsync

\* TokenImporter.handleScan(data), addAccount included; tiAccount keeps the
\* accountData of the call
ImporterScan ==
    /\ Len(accounts) < MaxStore
    /\ \E data \in StoreScans, list \in {accounts, <<>>}, o \in StorageOutcomes :
          \E b \in {ImporterScans[data]} :
             /\ tiAccount' = b.account
             /\ accounts' = IF b.state # "error" /\ o = "saved"
                            THEN addAccount(list, AccountData(b.account), now)
                            ELSE accounts
    /\ UNCHANGED <<importState, errorMessage, importedCount, tiPc, tiList, scanning, alert,
                   asPc, asAccount, asList, unhandled, timeVars, parseVars, retryVars,
                   vaultVars, asyncVars>>

\* AddScreen.handleBarCodeScanned(data), addAccount included
ScreenScan ==
    /\ Len(accounts) < MaxStore
    /\ \E data \in StoreScans, list \in {accounts, <<>>}, o \in StorageOutcomes :
          \E b \in {ScreenScans[data]} :
             accounts' = IF b.alert = "" /\ o = "saved"
                         THEN addAccount(list, AccountData(b.account), now)
                         ELSE accounts
    /\ UNCHANGED <<importState, errorMessage, importedCount, tiPc, tiAccount, tiList,
                   scanning, alert, asPc, asAccount, asList, unhandled, timeVars, parseVars,
                   retryVars,
                   vaultVars, asyncVars>>

\* AddAccountManual.handleAdd and, through onAdd, AddScreen.handleManualAdd
ManualAdd ==
    /\ Len(accounts) < MaxStore
    /\ \E form \in ManualForms, list \in {accounts, <<>>}, o \in StorageOutcomes :
          \E r \in {handleAdd(form)} :
             accounts' = IF r.alert = "" /\ o = "saved" THEN addAccount(list, r.account, now)
                         ELSE accounts
    /\ UNCHANGED <<importState, errorMessage, importedCount, tiPc, tiAccount, tiList,
                   scanning, alert, asPc, asAccount, asList, unhandled, timeVars, parseVars,
                   retryVars,
                   vaultVars, asyncVars>>

\* updateAccount(account): a stored account, or an unknown one, under a new name
UpdateAccount ==
    /\ \E old \in {accounts[i] : i \in 1..Len(accounts)} \cup {[id |-> "uuid-0", name |-> "x"]},
          list \in {accounts, <<>>}, o \in StorageOutcomes :
          accounts' = IF o = "saved" /\ "id" \in DOMAIN old
                      THEN updateAccount(list, [old EXCEPT !.name = "renamed"])
                      ELSE accounts
    /\ UNCHANGED <<importState, errorMessage, importedCount, tiPc, tiAccount, tiList,
                   scanning, alert, asPc, asAccount, asList, unhandled, timeVars, parseVars,
                   retryVars,
                   vaultVars, asyncVars>>

\* deleteAccount(id)
DeleteAccount ==
    /\ \E id \in {"uuid-1", "uuid-2", "backup-1"}, list \in {accounts, <<>>},
          o \in StorageOutcomes :
          accounts' = IF o = "saved" THEN deleteAccount(list, id) ELSE accounts
    /\ UNCHANGED <<importState, errorMessage, importedCount, tiPc, tiAccount, tiList,
                   scanning, alert, asPc, asAccount, asList, unhandled, timeVars, parseVars,
                   retryVars,
                   vaultVars, asyncVars>>

\* importAccounts(backupData)
ImportAccounts ==
    /\ \E backup \in Backups, o \in StorageOutcomes :
          \E r \in {importAccounts(backup)} :
             accounts' = IF o = "saved" /\ r.saves THEN r.save ELSE accounts
    /\ UNCHANGED <<importState, errorMessage, importedCount, tiPc, tiAccount, tiList,
                   scanning, alert, asPc, asAccount, asList, unhandled, timeVars, parseVars,
                   retryVars,
                   vaultVars, asyncVars>>

NextStore ==
    \/ ImporterScan \/ ScreenScan \/ ManualAdd
    \/ UpdateAccount \/ DeleteAccount \/ ImportAccounts

SpecStore == InitStore /\ [][NextStore]_vars

(***************************************************************************)
(* The storage layer (utils/storage.ts): the two AsyncStorage items, the   *)
(* encryption toggle and the backup.  The backup is a text: it is written  *)
(* by JSON.stringify and read by JSON.parse, character by character.  The  *)
(* accounts item is kept as the JSON value its text holds.                 *)
(***************************************************************************)
\* JSON.stringify of a string, without the quotes: '"' and '\' are escaped
RECURSIVE QuoteFrom(_, _)
QuoteFrom(s, i) ==
    IF i > Len(s) THEN ""
    ELSE (IF Ch(s, i) \in {"\"", "\\"} THEN "\\" \o Ch(s, i) ELSE Ch(s, i)) \o QuoteFrom(s, i + 1)

\* the order in which an account's properties were created
AccountKeys == <<"name", "issuer", "secret", "algorithm", "digits", "period", "id", "createdAt">>

\* the properties of an account that hold numbers
NumberKeys == {"digits", "period", "createdAt"}

\* JSON.stringify of one property value
JSONstringifyValue(k, v) ==
    IF k \in NumberKeys THEN (IF v < 0 THEN "-" \o NumberText(-v) ELSE NumberText(v))
    ELSE "\"" \o QuoteFrom(v, 1) \o "\""

\* JSON.stringify of an account, from its i-th possible property on
RECURSIVE JSONstringifyMembers(_, _, _)
JSONstringifyMembers(a, i, sep) ==
    IF i > Len(AccountKeys) THEN ""
    ELSE IF AccountKeys[i] \notin DOMAIN a THEN JSONstringifyMembers(a, i + 1, sep)
    ELSE sep \o "\"" \o AccountKeys[i] \o "\":" \o JSONstringifyValue(AccountKeys[i], a[AccountKeys[i]])
             \o JSONstringifyMembers(a, i + 1, ",")

\* JSON.stringify of the elements of an account list
RECURSIVE JSONstringifyElements(_, _)
JSONstringifyElements(list, sep) ==
    IF list = <<>> THEN ""
    ELSE sep \o "{" \o JSONstringifyMembers(Head(list), 1, "") \o "}"
             \o JSONstringifyElements(Tail(list), ",")

\* JSON.parse: a string from position i, just after its opening quote
RECURSIVE JSONparseString(_, _, _)
JSONparseString(s, i, acc) ==
    IF i > Len(s) THEN JFail
    ELSE IF Ch(s, i) = "\"" THEN [ok |-> TRUE, val |-> [t |-> "s", v |-> acc], next |-> i + 1]
    ELSE IF Ch(s, i) = "\\"
    THEN (IF i < Len(s) /\ Ch(s, i + 1) \in {"\"", "\\", "/"}
          THEN JSONparseString(s, i + 2, acc \o Ch(s, i + 1)) ELSE JFail)
    ELSE IF Ch(s, i) \in {"\t", "\n", "\r"} THEN JFail
    ELSE JSONparseString(s, i + 1, acc \o Ch(s, i))

\* JSON.parse: the value that starts at position i.  An array is [t |-> "a"]
\* with its elements, an object [t |-> "o"] with its members as <<key, value>>
RECURSIVE JSONparseValue(_, _)
RECURSIVE JSONparseElements(_, _, _)
RECURSIVE JSONparseMembers(_, _, _)

\* after an element v of an array: ',' or ']'
JSONparseElementsEnd(s, acc, v, d) ==
    IF ~v.ok \/ d > Len(s) THEN JFail
    ELSE IF Ch(s, d) = "," THEN JSONparseElements(s, JSkip(s, d + 1), Append(acc, v.val))
    ELSE IF Ch(s, d) = "]"
    THEN [ok |-> TRUE, val |-> [t |-> "a", v |-> Append(acc, v.val)], next |-> d + 1]
    ELSE JFail

JSONparseElementsNext(s, acc, v) ==
    JSONparseElementsEnd(s, acc, v, IF v.ok THEN JSkip(s, v.next) ELSE 0)

JSONparseElements(s, i, acc) == JSONparseElementsNext(s, acc, JSONparseValue(s, i))

\* after a member k: v of an object: ',' or '}'
JSONparseMembersEnd(s, acc, k, v, d) ==
    IF ~v.ok \/ d > Len(s) THEN JFail
    ELSE IF Ch(s, d) = "," THEN JSONparseMembers(s, JSkip(s, d + 1), Append(acc, <<k.val.v, v.val>>))
    ELSE IF Ch(s, d) = "}"
    THEN [ok |-> TRUE, val |-> [t |-> "o", v |-> Append(acc, <<k.val.v, v.val>>)], next |-> d + 1]
    ELSE JFail

JSONparseMemberValue(s, acc, k, v) ==
    JSONparseMembersEnd(s, acc, k, v, IF v.ok THEN JSkip(s, v.next) ELSE 0)

\* after the key k of a member: ':' and the value
JSONparseMemberColon(s, acc, k, c) ==
    IF ~k.ok \/ c > Len(s) \/ Ch(s, c) # ":" THEN JFail
    ELSE JSONparseMemberValue(s, acc, k, JSONparseValue(s, JSkip(s, c + 1)))

JSONparseMemberKey(s, acc, k) ==
    JSONparseMemberColon(s, acc, k, IF k.ok THEN JSkip(s, k.next) ELSE 0)

JSONparseMembers(s, i, acc) ==
    IF i > Len(s) \/ Ch(s, i) # "\"" THEN JFail
    ELSE JSONparseMemberKey(s, acc, JSONparseString(s, i + 1, ""))

\* '[' or '{' at position i, c the position of the next character that counts
JSONparseOpen(s, i, c) ==
    IF c > Len(s) THEN JFail
    ELSE IF Ch(s, i) = "["
    THEN (IF Ch(s, c) = "]" THEN [ok |-> TRUE, val |-> [t |-> "a", v |-> <<>>], next |-> c + 1]
          ELSE JSONparseElements(s, c, <<>>))
    ELSE (IF Ch(s, c) = "}" THEN [ok |-> TRUE, val |-> [t |-> "o", v |-> <<>>], next |-> c + 1]
          ELSE JSONparseMembers(s, c, <<>>))

JSONparseValue(s, i) ==
    IF i > Len(s) THEN JFail
    ELSE IF Ch(s, i) = "\"" THEN JSONparseString(s, i + 1, "")
    ELSE IF Ch(s, i) \in {"[", "{"} THEN JSONparseOpen(s, i, JSkip(s, i + 1))
    ELSE JValue(s, i)

\* JSON.parse(text): ok = FALSE when it throws
JSONparseEnd(s, v) == IF v.ok /\ JSkip(s, v.next) > Len(s) THEN v ELSE JFail

JSONparse(s) == JSONparseEnd(s, JSONparseValue(s, JSkip(s, 1)))

\* the number a JSON number text stands for
JSONnumber(text) == IF Ch(text, 1) = "-" THEN 0 - ParseInt(Sub(text, 2, Len(text))) ELSE ParseInt(text)

\* the keys of an object's members that hold a value of the property's kind; a
\* member that holds null, or a value of another kind, counts as a property
\* the account lacks
AccountProperties(members) ==
    {members[i][1] : i \in {j \in 1..Len(members) :
        JGet(members, members[j][1]).t = IF members[j][1] \in NumberKeys THEN "n" ELSE "s"}}

\* an element of data.accounts as an account: the record of its properties
\* (an element that is not an object has none)
AccountOf(x) ==
    IF x.t # "o" THEN <<>>
    ELSE [k \in AccountProperties(x.v) |->
             IF k \in NumberKeys THEN JSONnumber(JGet(x.v, k).v) ELSE JGet(x.v, k).v]

\* what importAccounts reads in JSON.parse(backupData): kind "malformed" when
\* JSON.parse throws or gives null, "object" when data.accounts is no array,
\* "accounts" with the elements of the array otherwise
BackupOf(data) ==
    IF ~data.ok \/ (data.val.t = "l" /\ data.val.v = "null")
    THEN [kind |-> "malformed", accounts |-> <<>>]
    ELSE IF data.val.t # "o" \/ JGet(data.val.v, "accounts").t # "a"
    THEN [kind |-> "object", accounts |-> <<>>]
    ELSE [kind |-> "accounts",
          accounts |-> [i \in 1..Len(JGet(data.val.v, "accounts").v) |->
                           AccountOf(JGet(data.val.v, "accounts").v[i])]]

\* isEncryptedStorageEnabled: value === 'true'
isEncryptedStorageEnabled(fl) == fl = "true"

\* the accounts item written without encryption: JSON.stringify(accounts)
PlainItem(list) == [kind |-> "array", accounts |-> list]

\* encryptData: JSON.stringify({iv, data}), data the SHA-256 digest (in
\* hexadecimal) of the text, the key and the iv
encryptData(iv, digest) == [kind |-> "object", iv |-> iv, data |-> digest]

\* JSON.stringify of what encryptData wrote
ObjectText(it) == "{\"iv\":\"" \o it.iv \o "\",\"data\":\"" \o it.data \o "\"}"

\* a text of hexadecimal digits is JSON when it reads as a number: digits
\* without a leading zero, then possibly 'e' and digits
HexIsJSON(text) ==
    \E n \in 1..Len(text) :
        /\ AllDigits(Sub(text, 1, n)) /\ (n = 1 \/ Ch(text, 1) # "0")
        /\ \/ n = Len(text)
           \/ n + 1 < Len(text) /\ Ch(text, n + 1) = "e" /\ AllDigits(Sub(text, n + 2, Len(text)))

\* decryptData(encryptedData): the data property of JSON.parse(encryptedData),
\* null when getEncryptionKey rejects; an array has no data property
decryptData(it, io) == IF io = "keyFailed" \/ it.kind # "object" THEN Null ELSE Some(it.data)

\* what getAccounts resolves to: an account list, or a value that is no array
\* (given as its JSON text)
Accounts(list) == [threw |-> FALSE, array |-> TRUE, list |-> list, text |-> ""]

NotAnArray(text) == [threw |-> FALSE, array |-> FALSE, list |-> <<>>, text |-> text]

\* what AsyncStorage and the key store do during getAccounts: every read
\* answers, getItem of the accounts rejects, getItem of the flag rejects, or
\* getEncryptionKey rejects
ReadOutcomes == {"read", "readFailed", "flagReadFailed", "keyFailed"}

\* a getAccounts without its try/catch and without the guard on decryptedData
getAccounts_noCatch(it, fl, io) ==
    IF it.kind = "none" /\ io # "readFailed" THEN Accounts(<<>>)
    ELSE IF io # "read" \/ (isEncryptedStorageEnabled(fl) /\ it.kind = "array")
    THEN [threw |-> TRUE, array |-> FALSE, list |-> <<>>, text |-> ""]
    ELSE IF isEncryptedStorageEnabled(fl)
    THEN (IF HexIsJSON(it.data) THEN NotAnArray(it.data)
          ELSE [threw |-> TRUE, array |-> FALSE, list |-> <<>>, text |-> ""])
    ELSE IF it.kind = "array" THEN Accounts(it.accounts) ELSE NotAnArray(ObjectText(it))

\* getAccounts(), the accounts item it, the flag item fl
getAccounts(it, fl, io) ==
    IF io = "readFailed" THEN Accounts(<<>>)
    ELSE IF it.kind = "none" THEN Accounts(<<>>)
    ELSE IF io = "flagReadFailed" THEN Accounts(<<>>)
    ELSE IF isEncryptedStorageEnabled(fl)
    THEN (IF ~Truthy(decryptData(it, io)) THEN Accounts(<<>>)
          ELSE IF HexIsJSON(decryptData(it, io).v) THEN NotAnArray(decryptData(it, io).v)
          ELSE Accounts(<<>>))
    ELSE IF it.kind = "array" THEN Accounts(it.accounts) ELSE NotAnArray(ObjectText(it))

\* saveAccounts(accounts): whether it rejects, and the accounts item afterwards
saveAccounts(list, it, fl, o, digest) ==
    IF o = "flagReadFailed" THEN [threw |-> TRUE, item |-> it]
    ELSE IF o = "writeFailed" THEN [threw |-> FALSE, item |-> it]
    ELSE [threw |-> FALSE,
          item |-> IF isEncryptedStorageEnabled(fl)
                   THEN encryptData("000102030405060708090a0b0c0d0e0f", digest)
                   ELSE PlainItem(list)]

\* new Date().toISOString() within the first minute of the clock
toISOString(clock) == "1970-01-01T00:00:" \o padStart(NumberText(clock), 2) \o ".000Z"

\* exportAccounts() on the web: the backup text it returns
exportAccounts(r, clock) ==
    "{\"accounts\":"
        \o (IF r.array THEN "[" \o JSONstringifyElements(r.list, "") \o "]" ELSE r.text)
        \o ",\"exportedAt\":\"" \o toISOString(clock) \o "\",\"version\":\"1.0.0\"}"

(***************************************************************************)
(* Storage specification: the exported functions of utils/storage.ts, one  *)
(* call at a time, each from its start to its end in one step, over the    *)
(* two AsyncStorage items.  storeCall keeps the last call: its name and    *)
(* argument, whether it called saveAccounts (saves), whether that write    *)
(* reached the store (wrote) and with which list (save), and whether the   *)
(* call rejected (threw).                                                  *)
(***************************************************************************)
\* the accountData objects handed to addAccount
VaultAccounts ==
    {[name |-> "alice", issuer |-> "Example", secret |-> S16,
      algorithm |-> "SHA1", digits |-> 6, period |-> 30],
     [name |-> "bob \"b\"", issuer |-> "Acme", secret |-> "GEZDGNBVGY3TQOJQ",
      algorithm |-> "SHA256", digits |-> 8, period |-> 60]}

\* a SHA-256 digest, as Crypto.digestStringAsync returns it
Sha256Hex == "9f86d081884c7d659a2feaa0c55ad015a3bf4f1b2b0b822cd15d6c15b0f00a08"

\* what the storage does during one call: at most one of its steps fails
Faults ==
    {<<io, "saved">> : io \in ReadOutcomes} \cup {<<"read", o>> : o \in StorageOutcomes}

\* the record of a call that went as far as saveAccounts or stopped before it
Call(op, arg, saves, save, o, threw) ==
    [op |-> op, arg |-> arg, saves |-> saves, wrote |-> (saves /\ o = "saved"),
     save |-> IF saves /\ o = "saved" THEN save ELSE <<>>, threw |-> threw]

InitVault ==
    /\ IdleTime /\ IdleParse /\ IdleRetry /\ IdleUI /\ IdleVault /\ IdleAsync

\* getAccounts(), as the account list screen calls it
GetAccounts ==
    /\ \E io \in ReadOutcomes :
          storeCall' = [op |-> "getAccounts", io |-> io, read |-> getAccounts(item, flag, io)]
    /\ UNCHANGED <<flag, item, exported, timeVars, parseVars, retryVars, uiVars, asyncVars>>

\* addAccount(account): [...accounts, newAccount] throws on a value that is no array
AddAccount ==
    /\ item.kind = "array" => Len(item.accounts) < MaxStore
    /\ \E account \in VaultAccounts, f \in Faults :
          \E r \in {getAccounts(item, flag, f[1])} :
             \E s \in {saveAccounts(addAccount(r.list, account, now), item, flag, f[2], Sha256Hex)} :
                /\ item' = IF r.array THEN s.item ELSE item
                /\ storeCall' = Call("addAccount", account, r.array,
                                     addAccount(r.list, account, now), f[2],
                                     ~r.array \/ s.threw)
    /\ UNCHANGED <<flag, exported, timeVars, parseVars, retryVars, uiVars, asyncVars>>

\* the accounts a caller of updateAccount can hold: one that getAccounts gave,
\* with another createdAt, and one that was never stored
UpdateArguments(list) ==
    {[k \in DOMAIN list[i] \cup {"createdAt"} |->
         IF k = "createdAt" THEN 5000 ELSE list[i][k]] : i \in 1..Len(list)}
        \cup {[id |-> "uuid-0", name |-> "erin", issuer |-> "Example", secret |-> S16,
               algorithm |-> "SHA1", digits |-> 6, period |-> 30, createdAt |-> 0]}

\* updateAccount(account): accounts.findIndex throws on a value that is no array
RunUpdateAccount ==
    /\ \E account \in {a \in UpdateArguments(getAccounts(item, flag, "read").list) :
                           "id" \in DOMAIN a},
          f \in Faults :
          \E r \in {getAccounts(item, flag, f[1])} :
             \E s \in {saveAccounts(updateAccount(r.list, account), item, flag, f[2], Sha256Hex)} :
                \E found \in {r.array /\ FindIndex(r.list, account.id) # 0} :
                   /\ item' = IF found THEN s.item ELSE item
                   /\ storeCall' = Call("updateAccount", account, found,
                                        updateAccount(r.list, account), f[2],
                                        ~r.array \/ (found /\ s.threw))
    /\ UNCHANGED <<flag, exported, timeVars, parseVars, retryVars, uiVars, asyncVars>>

\* deleteAccount(id): accounts.filter throws on a value that is no array
RunDeleteAccount ==
    /\ \E id \in {"uuid-1", "uuid-2", "backup-1"}, f \in Faults :
          \E r \in {getAccounts(item, flag, f[1])} :
             \E s \in {saveAccounts(deleteAccount(r.list, id), item, flag, f[2], Sha256Hex)} :
                /\ item' = IF r.array THEN s.item ELSE item
                /\ storeCall' = Call("deleteAccount", id, r.array,
                                     deleteAccount(r.list, id), f[2], ~r.array \/ s.threw)
    /\ UNCHANGED <<flag, exported, timeVars, parseVars, retryVars, uiVars, asyncVars>>

\* setEncryptedStorage(enabled): the flag is written first; when enabling, the
\* accounts are read and saved under the new flag
SetEncryptedStorage ==
    /\ \E enabled \in BOOLEAN, f \in Faults :
          \E fl \in {IF enabled THEN "true" ELSE "false"} :
             \E r \in {getAccounts(item, fl, f[1])} :
                \E s \in {saveAccounts(r.list, item, fl, f[2], Sha256Hex)} :
                   /\ flag' = fl
                   /\ item' = IF enabled THEN s.item ELSE item
                   /\ storeCall' = Call("setEncryptedStorage", enabled, enabled, r.list, f[2],
                                        enabled /\ s.threw)
    /\ UNCHANGED <<exported, timeVars, parseVars, retryVars, uiVars, asyncVars>>

NextVault ==
    \/ GetAccounts \/ AddAccount \/ RunUpdateAccount \/ RunDeleteAccount
    \/ SetEncryptedStorage

SpecVault == InitVault /\ [][NextVault]_vars

(***************************************************************************)
(* Backup specification: exportAccounts and importAccounts over the same   *)
(* two items, with deleteAccount and setEncryptedStorage between them.     *)
(* The text that exportAccounts returned is kept (exported), and           *)
(* importAccounts reads it or a text that was written elsewhere.           *)
(***************************************************************************)
\* backup texts that are at hand before exportAccounts is called: no JSON, no
\* accounts array, a hand-written backup, and the backup of another installation
BackupTexts ==
    {"not a backup",
     "{\"version\":\"1.0.0\"}",
     "{\"accounts\":[{\"id\":\"backup-1\",\"name\":\"carol\",\"issuer\":\"Acme\","
         \o "\"secret\":\"" \o S16 \o "\",\"createdAt\":7000},{\"name\":\"dave\"},null]}",
     exportAccounts(Accounts(addAccount(addAccount(<<>>,
                        [name |-> "alice", issuer |-> "Example", secret |-> S16,
                         algorithm |-> "SHA1", digits |-> 6, period |-> 30], 0),
                        [name |-> "bob \"b\"", issuer |-> "Acme", secret |-> "GEZDGNBVGY3TQOJQ",
                         algorithm |-> "SHA256", digits |-> 8, period |-> 60], 0)), 0)}

\* what importAccounts makes of them
ImportedBackups == [text \in BackupTexts |-> importAccounts(BackupOf(JSONparse(text)))]

\* exportAccounts() on the web, once
ExportAccounts ==
    /\ exported.text = ""
    /\ \E io \in ReadOutcomes :
          \E r \in {getAccounts(item, flag, io)} :
             /\ exported' = [text |-> exportAccounts(r, now),
                             accounts |-> getAccounts(item, flag, "read").list,
                             read |-> (io = "read")]
             /\ storeCall' = [op |-> "exportAccounts", io |-> io, read |-> r]
    /\ UNCHANGED <<flag, item, timeVars, parseVars, retryVars, uiVars, asyncVars>>

\* importAccounts(backupData); a rejection of saveAccounts is caught
RunImportAccounts ==
    /\ \E text \in (BackupTexts \cup {exported.text}) \ {""} :
          \E r \in {IF text \in BackupTexts THEN ImportedBackups[text]
                     ELSE importAccounts(BackupOf(JSONparse(text)))} :
             \E o \in StorageOutcomes :
                \E s \in {saveAccounts(r.save, item, flag, o, Sha256Hex)} :
                   /\ item' = IF r.saves THEN s.item ELSE item
                   /\ storeCall' = [op |-> "importAccounts", arg |-> text, saves |-> r.saves,
                                    wrote |-> (r.saves /\ o = "saved"),
                                    save |-> IF r.saves /\ o = "saved" THEN r.save ELSE <<>>,
                                    threw |-> FALSE, returned |-> (r.ok /\ ~s.threw)]
    /\ UNCHANGED <<flag, exported, timeVars, parseVars, retryVars, uiVars, asyncVars>>

NextBackup ==
    \/ RunDeleteAccount \/ SetEncryptedStorage \/ ExportAccounts \/ RunImportAccounts

SpecBackup == InitVault /\ [][NextBackup]_vars

(***************************************************************************)
(* Concurrency specification: addAccount, updateAccount and deleteAccount  *)
(* of utils/storage.ts as the asynchronous functions they are.  A call     *)
(* runs to "await getAccounts()", goes on when the read has settled and    *)
(* runs to "await saveAccounts(...)", and ends when the write has settled; *)
(* between two awaits of one call the steps of other calls may run.        *)
(* Nothing in the storage layer orders the calls.  AsyncStorage answers    *)
(* every read and write here, and the encryption flag is off.              *)
(***************************************************************************)
\* the accountData of the calls of addAccount
RaceAccounts ==
    {[name |-> "alice", issuer |-> "Example", secret |-> S16,
      algorithm |-> "SHA1", digits |-> 6, period |-> 30],
     [name |-> "bob", issuer |-> "Acme", secret |-> S16,
      algorithm |-> "SHA1", digits |-> 6, period |-> 30]}

\* Crypto.randomUUID() in the call of slot c: no other call draws it
callUUID(c) == "uuid-" \o NumberText(c)

\* the account an updateAccount is called with: a stored one, renamed
Renamed(a) == [a EXCEPT !.name = a.name \o "*"]

\* a call up to its first await, "await getAccounts()"
CallOf(op, arg) == [op |-> op, arg |-> arg, pc |-> "getAccounts"]

\* getAccounts has answered the call of slot c with list: the call runs to
\* "await saveAccounts(save)", or to its end when updateAccount finds no index
CallRead(c, call, list, clock) ==
    IF call.op = "addAccount"
    THEN [call EXCEPT !.pc = "saveAccounts"]
            @@ [save |-> [addAccount(list, call.arg, clock)
                             EXCEPT ![Len(list) + 1].id = callUUID(c)]]
    ELSE IF call.op = "deleteAccount"
    THEN [call EXCEPT !.pc = "saveAccounts"] @@ [save |-> deleteAccount(list, call.arg)]
    ELSE IF FindIndex(list, call.arg.id) = 0
    THEN [call EXCEPT !.pc = "done"] @@ [save |-> list]
    ELSE [call EXCEPT !.pc = "saveAccounts"] @@ [save |-> updateAccount(list, call.arg)]

\* the account a finished addAccount returned, or a finished updateAccount stored
CallAccount(call) ==
    IF call.op = "addAccount" THEN call.save[Len(call.save)] ELSE call.arg

\* the id that a call adds, replaces or removes
CallTarget(call) ==
    IF call.op = "deleteAccount" THEN call.arg ELSE CallAccount(call).id

InitRace ==
    /\ IdleTime /\ IdleParse /\ IdleRetry /\ IdleUI /\ IdleVault /\ IdleAsync

\* addAccount(account) is called
CallAddAccount(c) ==
    /\ calls[c].pc = "idle"
    /\ \E account \in RaceAccounts :
          calls' = [calls EXCEPT ![c] = CallOf("addAccount", account)]
    /\ UNCHANGED <<qr, timers, onScanCall, importer, timeVars, parseVars, retryVars, uiVars,
                   vaultVars>>

\* updateAccount(account) is called for an account of the list
CallUpdateAccount(c) ==
    /\ calls[c].pc = "idle"
    /\ \E i \in 1..Len(accounts) :
          calls' = [calls EXCEPT ![c] = CallOf("updateAccount", Renamed(accounts[i]))]
    /\ UNCHANGED <<qr, timers, onScanCall, importer, timeVars, parseVars, retryVars, uiVars,
                   vaultVars>>

\* deleteAccount(id) is called for an account of the list
CallDeleteAccount(c) ==
    /\ calls[c].pc = "idle"
    /\ \E i \in 1..Len(accounts) :
          calls' = [calls EXCEPT ![c] = CallOf("deleteAccount", accounts[i].id)]
    /\ UNCHANGED <<qr, timers, onScanCall, importer, timeVars, parseVars, retryVars, uiVars,
                   vaultVars>>

\* "await getAccounts()" of a call settles with the list stored now
GetAccountsSettles(c) ==
    /\ calls[c].pc = "getAccounts"
    /\ calls' = [calls EXCEPT ![c] = CallRead(c, calls[c], accounts, now)]
    /\ UNCHANGED <<qr, timers, onScanCall, importer, timeVars, parseVars, retryVars, uiVars,
                   vaultVars>>

\* "await saveAccounts(save)" of a call settles: the list is stored
SaveAccountsSettles(c) ==
    /\ calls[c].pc = "saveAccounts"
    /\ accounts' = calls[c].save
    /\ calls' = [calls EXCEPT ![c].pc = "done"]
    /\ UNCHANGED <<importState, errorMessage, importedCount, tiPc, tiAccount, tiList,
                   scanning, alert, asPc, asAccount, asList, unhandled,
                   qr, timers, onScanCall, importer, timeVars, parseVars, retryVars,
                   vaultVars>>

NextRace ==
    \E c \in CallIds :
       \/ CallAddAccount(c) \/ CallUpdateAccount(c) \/ CallDeleteAccount(c)
       \/ GetAccountsSettles(c) \/ SaveAccountsSettles(c)

SpecRace == InitRace /\ [][NextRace]_vars

(***************************************************************************)
(* Scanner specification: AddScreen and the QRCodeScanner it shows while   *)
(* its state scanning is true.  AddScreen passes no scanFilter, so every   *)
(* code read goes to showSuccessState, which sets a timer of one second    *)
(* for onScan(data).  The timer is a callback of the JavaScript runtime:   *)
(* it is pending until it fires, whether or not the component that set it  *)
(* is still mounted, and the component never clears it.  A timer keeps     *)
(* whether onCancel was called after it was set.  The addAccount of the    *)
(* AddScreen handler takes the steps ScreenGetAccounts and                 *)
(* ScreenSaveAccounts; a timer fires when no earlier handler is in flight. *)
(***************************************************************************)
\* the codes held before the camera
ScannerCodes ==
    {"otpauth://totp/Example:alice?secret=" \o S16,
     "https://example.com/?secret=" \o S16}

\* what AddScreen.handleBarCodeScanned makes of them
ScannedCodes == [data \in ScannerCodes |-> BarCodeBody(data)]

\* QRCodeScanner.showSuccessState: setIsScanning(false), setScanSuccess(true)
showSuccessState(q) == [q EXCEPT !.isScanning = FALSE, !.scanSuccess = TRUE]

InitScanner ==
    /\ IdleTime /\ IdleParse /\ IdleRetry /\ IdleUI /\ IdleVault /\ IdleAsync

\* AddScreen.startScanning with a camera available: QRCodeScanner is mounted
OpenScanner ==
    /\ ~scanning /\ asPc \in {"idle", "done"}
    /\ scanning' = TRUE
    /\ alert' = ""
    /\ asPc' = "idle"
    /\ qr' = [isScanning |-> TRUE, scanSuccess |-> FALSE, scanError |-> FALSE]
    /\ UNCHANGED <<importState, errorMessage, importedCount, tiPc, tiAccount, tiList,
                   asAccount, asList, unhandled, accounts, calls, timers, onScanCall,
                   importer, timeVars, parseVars, retryVars, vaultVars>>

\* QRCodeScanner.handleBarCodeScanned({type, data}) and the showSuccessState it
\* calls: the timer of onScan(data) is set
ScannerHandleBarCodeScanned ==
    /\ scanning
    /\ qr.isScanning /\ ~qr.scanSuccess /\ ~qr.scanError
    /\ \E data \in ScannerCodes :
          timers' = timers \cup {[data |-> data, cancelled |-> FALSE]}
    /\ qr' = showSuccessState(qr)
    /\ UNCHANGED <<calls, onScanCall, importer, timeVars, parseVars, retryVars, uiVars,
                   vaultVars>>

\* QRCodeScanner.handleCancel: onCancel(), which is AddScreen's
\* setScanning(false); the scanner is unmounted
HandleCancel ==
    /\ scanning
    /\ scanning' = FALSE
    /\ timers' = {[t EXCEPT !.cancelled = TRUE] : t \in timers}
    /\ UNCHANGED <<importState, errorMessage, importedCount, tiPc, tiAccount, tiList, alert,
                   asPc, asAccount, asList, unhandled, accounts, calls, qr, onScanCall,
                   importer, timeVars, parseVars, retryVars, vaultVars>>

\* the timer of showSuccessState fires: onScan(data), which is
\* AddScreen.handleBarCodeScanned(data), from its start to the await of
\* addAccount or to its return
OnScanTimer ==
    /\ asPc \in {"idle", "done"}
    /\ Len(accounts) < MaxStore
    /\ \E t \in timers :
          /\ timers' = timers \ {t}
          /\ onScanCall' = t
          /\ scanning' = FALSE
          /\ alert' = ScannedCodes[t.data].alert
          /\ asAccount' = ScannedCodes[t.data].account
          /\ asPc' = IF ScannedCodes[t.data].alert # "" THEN "done" ELSE "adding"
    /\ UNCHANGED <<importState, errorMessage, importedCount, tiPc, tiAccount, tiList,
                   asList, unhandled, accounts, calls, qr, importer, timeVars, parseVars,
                   retryVars, vaultVars>>

NextScanner ==
    \/ OpenScanner \/ ScannerHandleBarCodeScanned \/ HandleCancel \/ OnScanTimer
    \/ ScreenGetAccounts \/ ScreenSaveAccounts

SpecScanner == InitScanner /\ [][NextScanner]_vars

(***************************************************************************)
(* Importer specification: TokenImporter and the SimplifiedQRScanner it    *)
(* renders while importState is 'scanning'.  setImportState changes the    *)
(* state that React holds; what is on the screen changes when React        *)
(* renders, after the handler that set the state has returned to the event *)
(* loop (Render).  The camera reports a code for every frame in which it   *)
(* detects it, for as long as the scanner of the last render is mounted;   *)
(* neither SimplifiedQRScanner nor handleScan keeps a note that a scan was *)
(* taken.  The addAccount of a handleScan is a call of the storage layer.  *)
(***************************************************************************)
\* what TokenImporter.handleScan makes of the codes
ImportedCodes == [data \in ScannerCodes |-> HandleScanBody(data)]

\* a slot for a call of the storage layer
FreeSlot(c) == calls[c].pc = "idle" /\ \A d \in 1..(c - 1) : calls[d].pc # "idle"

\* a method card is pressed: setImportState('scanning')
ShowScanner ==
    /\ importer.rendered = "initial" /\ importState = "initial"
    /\ importState' = "scanning"
    /\ UNCHANGED <<errorMessage, importedCount, tiPc, tiAccount, tiList, scanning, alert,
                   asPc, asAccount, asList, unhandled, accounts, asyncVars, timeVars,
                   parseVars, retryVars, vaultVars>>

\* React renders TokenImporter: renderContent shows the screen of importState,
\* and the scanner is mounted only in 'scanning'
Render ==
    /\ importer.rendered # importState
    /\ importer' = [importer EXCEPT !.rendered = importState, !.code = ""]
    /\ UNCHANGED <<calls, qr, timers, onScanCall, timeVars, parseVars, retryVars, uiVars,
                   vaultVars>>

\* a QR code is held before the camera
PresentCode ==
    /\ importer.rendered = "scanning" /\ importer.code = ""
    /\ \E data \in ScannerCodes : importer' = [importer EXCEPT !.code = data, !.adds = 0]
    /\ UNCHANGED <<calls, qr, timers, onScanCall, timeVars, parseVars, retryVars, uiVars,
                   vaultVars>>

\* the camera detects the code in a frame: SimplifiedQRScanner's
\* handleBarCodeScanned calls onScan(data) for a code with an otpauth prefix,
\* and TokenImporter.handleScan(data) runs from its start to the await of
\* addAccount or to its return
Frame ==
    /\ importer.rendered = "scanning" /\ importer.code # ""
    /\ HasScanPrefix(importer.code)
    /\ Len(accounts) < MaxStore
    /\ \E c \in CallIds, b \in {ImportedCodes[importer.code]} :
          /\ FreeSlot(c)
          /\ importState' = b.state
          /\ errorMessage' = IF b.state = "error" THEN b.message ELSE errorMessage
          /\ calls' = IF b.state = "error" THEN calls
                      ELSE [calls EXCEPT ![c] = CallOf("addAccount", AccountData(b.account))]
          /\ importer' = IF b.state = "error" THEN importer
                         ELSE [importer EXCEPT !.adds = @ + 1]
    /\ UNCHANGED <<importedCount, tiPc, tiAccount, tiList, scanning, alert, asPc, asAccount,
                   asList, unhandled, accounts, qr, timers, onScanCall, timeVars, parseVars,
                   retryVars, vaultVars>>

\* "await addAccount(accountData)" of a handleScan settles, the list stored, and
\* handleScan runs to its end: setImportedCount(1), setImportState('success')
HandleScanResumes(c) ==
    /\ calls[c].pc = "saveAccounts"
    /\ accounts' = calls[c].save
    /\ calls' = [calls EXCEPT ![c].pc = "done"]
    /\ importedCount' = 1
    /\ importState' = "success"
    /\ UNCHANGED <<errorMessage, tiPc, tiAccount, tiList, scanning, alert, asPc, asAccount,
                   asList, unhandled, qr, timers, onScanCall, importer, timeVars, parseVars,
                   retryVars, vaultVars>>

\* TokenImporter.handleRetry, or the importer closed and opened again
LeaveResult ==
    /\ importer.rendered \in {"success", "error"} /\ importState = importer.rendered
    /\ \A c \in CallIds : calls[c].pc \in {"idle", "done"}
    /\ importState' = "initial"
    /\ errorMessage' = ""
    /\ importedCount' = 0
    /\ UNCHANGED <<tiPc, tiAccount, tiList, scanning, alert, asPc, asAccount, asList,
                   unhandled, accounts, asyncVars, timeVars, parseVars, retryVars,
                   vaultVars>>

NextImporter ==
    \/ ShowScanner \/ Render \/ PresentCode \/ Frame \/ LeaveResult
    \/ \E c \in CallIds : GetAccountsSettles(c) \/ HandleScanResumes(c)

SpecImporter == InitScanner /\ [][NextImporter]_vars

(***************************************************************************)
(* Properties.                                                             *)
(***************************************************************************)
Done == parsed.kind # "none"

Text == Trim(parseArg)

IsMigration == StartsWith(Text, "otpauth-migration://")

HasOtpauth == Includes(ToLowerCase(Text), "otpauth://")

\* C1 (as amended): for every period > 0 and every clock value, getTimeRemaining
\* returns an integer r with 1 <= r <= period
C1_Range == trPeriod > 0 => (trResult >= 1 /\ trResult <= trPeriod)

\* C1 witness: a call made at the start of a time step returns the whole period
C1_Witness == trPeriod > 1 /\ trResult = trPeriod

\* C1 (original): getTimeRemaining returns r with 0 <= r < period
C1_Original == trPeriod > 0 => (trResult >= 0 /\ trResult < trPeriod)

\* the text between "otpauth://" and the first '/', when the input starts with
\* "otpauth://" and that '/' comes before any '?'
TypeSegment(text) ==
    LET slash == IndexOfFrom(text, "/", 11)
        quest == IndexOfFrom(text, "?", 11)
    IN  IF StartsWith(ToLowerCase(text), "otpauth://") /\ slash > 0 /\ (quest = 0 \/ slash < quest)
        THEN Sub(text, 11, slash - 1) ELSE ""

\* C2 (claim): an otpauth URI whose type segment is present and is neither totp
\* nor hotp, and which carries a secret (such as
\* otpauth://foo/label?secret=JBSWY3DPEHPK3PXP), makes parse fail with the
\* UnsupportedType message; it is not accepted as a credential
C2_UnsupportedTypeRejected ==
    (Done /\ StartsWith(Text, "otpauth://")
          /\ TypeSegment(Text) # "" /\ ToLowerCase(TypeSegment(Text)) \notin {"totp", "hotp"}
          /\ Includes(Text, "?secret=" \o S16))
        => (parsed.kind = "throw" /\ parsed.message = UnsupportedTypeMsg)

\* the whole input is a JSON object without secret, secretKey and key members
JsonWithoutSecret ==
    LET j == JSONParseObject(Text)
    IN  /\ ~IsMigration /\ ~HasOtpauth /\ j.ok
        /\ \A k \in {"secret", "secretKey", "key"} : JGet(j.obj, k) = JUndefined

\* C3 (claim): a JSON object with none of secret, secretKey, key makes parse fail
\* on the JSON path, without the query-string and bare-secret paths being tried
C3_JsonNoSecretFails ==
    (Done /\ JsonWithoutSecret) => (parsed.kind = "throw" /\ parsed.trace = <<"json">>)

\* the input is an otpauth://totp/ or otpauth://hotp/ URI with no secret
\* parameter, or an empty one
UriWithoutSecret ==
    LET q == IndexOf(Text, "?")
        query == IF q = 0 THEN "" ELSE Sub(Text, q + 1, Len(Text))
    IN  /\ ToLowerCase(TypeSegment(Text)) \in {"totp", "hotp"}
        /\ ~Truthy(ParamsGet(URLSearchParams(query), "secret"))

\* C4 (claim): an otpauth URI whose secret parameter is absent or empty makes
\* parse fail with the MissingSecret message
C4_MissingSecretMessage ==
    (Done /\ UriWithoutSecret) => (parsed.kind = "throw" /\ parsed.message = MissingSecretMsg)

BareCandidate ==
    ~IsMigration /\ ~HasOtpauth /\ ~JsonPath(Text).ok /\ ~QueryPath(Text).ok

\* C6 (as amended): such an input yields a credential exactly when at least 16
\* Base32 characters remain after stripping; its name is 'Unknown', its issuer
\* empty and its secret the canonical Base32 form of the stripped text (upper
\* case; the stripped text itself in upper case when its length is a multiple
\* of 8); otherwise parse fails with the InvalidFormat message
C6_BareSecret ==
    (Done /\ BareCandidate) =>
        \A clean \in {cleanSecret(Text)} :
            /\ parsed.kind = "credential" <=> Len(clean) >= 16
            /\ parsed.kind # "credential" =>
                  (parsed.kind = "throw" /\ parsed.message = InvalidFormatMsg)
            /\ parsed.kind = "credential" =>
                  /\ parsed.name = "Unknown" /\ parsed.issuer = ""
                  /\ parsed.secret = base32Encode(base32Decode(clean))
                  /\ parsed.secret = ToUpperCase(parsed.secret)
                  /\ Len(parsed.secret) <= Len(clean)
                  /\ Len(clean) % 8 = 0 => parsed.secret = ToUpperCase(clean)

\* C6 witness: a bare secret of exactly 16 characters after stripping was accepted
C6_Witness ==
    /\ Done /\ BareCandidate /\ parsed.kind = "credential"
    /\ Len(cleanSecret(Text)) = 16 /\ Len(Text) > 16

\* C6 (original): the credential's secret is the stripped text itself
C6_Original ==
    (Done /\ BareCandidate) =>
        \A clean \in {cleanSecret(Text)} :
            /\ parsed.kind = "credential" <=> Len(clean) >= 16
            /\ parsed.kind # "credential" =>
                  (parsed.kind = "throw" /\ parsed.message = InvalidFormatMsg)
            /\ parsed.kind = "credential" =>
                  (parsed.name = "Unknown" /\ parsed.secret = clean)

\* C7 (claim): for an accepted otpauth URI whose label is "issuer:rest" with both
\* parts non-empty, the issuer is the issuer parameter when there is one and the
\* label's text before the first ':' otherwise, and the name is all of the
\* label's text after that first ':'
C7_LabelResolution ==
    LET resolved(lab, i, ip) ==
            (lab.ok /\ i > 1 /\ i < Len(lab.s))
                => /\ Truthy(ip) => parsed.issuer = ip.v
                   /\ ~Truthy(ip) => parsed.issuer = Sub(lab.s, 1, i - 1)
                   /\ parsed.name = Sub(lab.s, i + 1, Len(lab.s))
        label(lab, ip) == resolved(lab, IndexOf(lab.s, ":"), ip)
        groups(m) == label(decodeURIComponent(m.label), LibParam(LibParams(m.params), "issuer"))
    IN  (Done /\ parsed.trace = <<"otpauth">> /\ parsed.kind = "credential")
            => groups(OTPURIMatch(Classify(parseArg).otpauthUrl))

\* C8 (claim): whatever the URI parser does, one top-level call of parse
\* performs at most one retry
C8_AtMostOneRetry == rRetries <= 1

\* a scan handler has run to its end
ImporterDone == tiPc = "done"

\* C9: no parse failure escapes the scan handlers: no exception leaves
\* TokenImporter.handleScan or AddScreen.handleBarCodeScanned; when handleScan
\* has finished TokenImporter is in 'success' or in 'error' with a non-empty
\* message; when handleBarCodeScanned has finished it has shown an alert;
\* 'processing' is held only while addAccount is awaited, and is always left
C9_NoEscape ==
    /\ [](/\ ~unhandled
          /\ ImporterDone => importState \in {"success", "error"}
          /\ importState = "error" => errorMessage # ""
          /\ importState = "processing" => tiPc \in {"adding", "saving"}
          /\ asPc = "done" => alert # "")
    /\ (importState = "processing") ~> (importState \in {"success", "error"})

\* C9 witness: handleScan ended in 'error' showing the message of an Error that
\* parseOTPAuthURL threw, and handleBarCodeScanned ended on a parse failure too
C9_Witness ==
    /\ ImporterDone /\ importState = "error"
    /\ errorMessage = "Missing or invalid 'secret' parameter"
    /\ asPc = "done" /\ alert = "qrScanner.errorProcessingQr"

\* C10: every credential parse returns has a non-empty name or a non-empty
\* issuer; when the fallbacks leave both empty it is the pair 'Unknown Account'
\* and 'Unknown Service', and the call still returns a credential
C10_NameOrIssuer ==
    (Done /\ parsed.kind = "credential") =>
        /\ parsed.name # "" \/ parsed.issuer # ""
        /\ parsed.defaulted => (parsed.name = "Unknown Account" /\ parsed.issuer = "Unknown Service")

\* C10 witness: a URI whose label and path give neither name nor issuer was
\* accepted with the default pair
C10_Witness ==
    /\ Done /\ parsed.kind = "credential" /\ parsed.defaulted
    /\ parsed.trace = <<"otpauth">>

\* the credential came from the otpauth URI the input holds
FromUri == Done /\ parsed.kind = "credential" /\ parsed.trace = <<"otpauth">>

\* the type and the parameters of that URI, as OTPAuth.URI.parse reads them
UriType == OTPURIMatch(Classify(parseArg).otpauthUrl).type

UriParameter(key) ==
    LibParam(LibParams(OTPURIMatch(Classify(parseArg).otpauthUrl).params), key)

\* C11 (as amended): a credential parsed from an otpauth URI has algorithm
\* 'SHA1', digits 6 and period 30 when the URI has no such parameter; an
\* algorithm parameter is carried over in upper case, a digits parameter as its
\* integer value, a period parameter as its integer value when the URI is a totp
\* URI, while an hotp URI always gives period 30
C11_Defaults ==
    FromUri =>
        /\ parsed.algorithm = IF UriParameter("algorithm").has
                              THEN ToUpperCase(UriParameter("algorithm").v) ELSE "SHA1"
        /\ parsed.digits = IF UriParameter("digits").has
                           THEN ParseInt(UriParameter("digits").v) ELSE 6
        /\ parsed.period = IF UriParameter("period").has /\ UriType = "totp"
                           THEN ParseInt(UriParameter("period").v) ELSE 30

\* C11 witness: an hotp URI with period=60, digits=8 and algorithm=SHA512 was
\* parsed: digits and algorithm are carried over, the period is 30
C11_Witness ==
    /\ FromUri /\ UriType = "hotp"
    /\ UriParameter("period") = Some("60")
    /\ parsed.period = 30 /\ parsed.digits = 8 /\ parsed.algorithm = "SHA512"

\* C11 (original): the defaults apply when the parameter is absent, and every
\* parameter that is present is carried over unchanged
C11_Original ==
    FromUri =>
        /\ parsed.algorithm = IF UriParameter("algorithm").has
                              THEN UriParameter("algorithm").v ELSE "SHA1"
        /\ parsed.digits = IF UriParameter("digits").has
                           THEN ParseInt(UriParameter("digits").v) ELSE 6
        /\ parsed.period = IF UriParameter("period").has
                           THEN ParseInt(UriParameter("period").v) ELSE 30

\* member k of the JSON object the input is
JsonField(k) == JGet(JSONParseObject(Text).obj, k)

\* the input is the JSON form {secret, name, issuer, algorithm, digits, period}
\* of a valid credential: a canonical Base32 secret, a name, and no member that
\* is present but empty or zero
JsonCredential ==
    /\ ~IsMigration /\ ~HasOtpauth /\ JSONParseObject(Text).ok
    /\ \A i \in 1..Len(JSONParseObject(Text).obj) :
          /\ JSONParseObject(Text).obj[i][1] \in
                 {"secret", "name", "issuer", "algorithm", "digits", "period"}
          /\ JTruthy(JSONParseObject(Text).obj[i][2])
    /\ JsonField("secret").t = "s" /\ B32Valid(JsonField("secret").v)
    /\ SecretBase32(JsonField("secret").v) = JsonField("secret").v
    /\ JsonField("name").t = "s"

\* two texts are equal up to percent-encoding
PercentEqual(a, b) ==
    \/ encodeURIComponent(a) = encodeURIComponent(b)
    \/ a = encodeURIComponent(b) \/ encodeURIComponent(a) = b

\* C12 (claim): round trip: the JSON form {secret, name, issuer, algorithm,
\* digits, period} of a valid credential c is parsed, through the synthesized
\* otpauth URI, to a credential equal to c in secret, algorithm, digits and
\* period, and equal to c in name and issuer up to percent-encoding
C12_RoundTrip ==
    (Done /\ JsonCredential) =>
        /\ parsed.kind = "credential"
        /\ parsed.secret = JsonField("secret").v
        /\ parsed.algorithm = JStr(JOr(JsonField("algorithm"), [t |-> "s", v |-> "SHA1"]))
        /\ parsed.digits = ParseInt(JStr(JOr(JsonField("digits"), [t |-> "n", v |-> "6"])))
        /\ parsed.period = ParseInt(JStr(JOr(JsonField("period"), [t |-> "n", v |-> "30"])))
        /\ PercentEqual(parsed.name, JsonField("name").v)
        /\ PercentEqual(parsed.issuer, JStr(JOr(JsonField("issuer"), [t |-> "s", v |-> ""])))

\* C13: generateTOTP never throws: every call returns a string, and when the
\* library failed inside it (a secret that is not decodable Base32, an unknown
\* hash function) the string is exactly 'ERROR'
C13_NeverThrows ==
    genOut.called =>
        /\ ~genOut.threw
        /\ genOut.result # ""
        /\ genOut.failed => genOut.result = "ERROR"
        /\ (~B32Valid(genArgs[1]) \/ ~AlgorithmText(genArgs[2])) => genOut.result = "ERROR"

\* C13 witness: a call with a secret that is not Base32 returned 'ERROR'
C13_Witness ==
    genOut.called /\ genArgs[1] = "not base32!" /\ genArgs[2] = "SHA1" /\ genOut.result = "ERROR"

\* the initial counter of the hotp URI the credential came from
SourceCounter ==
    LibParam(LibParams(OTPURIMatch(genSource).params), "counter")

\* C14 (claim): for a credential that came from an otpauth://hotp/ URI the
\* code is computed from the HOTP counter that goes with the credential (the
\* counter of the URI, as long as no code has been consumed), not from the clock
C14_HotpCounter ==
    (genOut.called /\ ~genOut.failed /\ OTPURIMatch(genSource).type = "hotp") =>
        genOut.counter = ParseInt(SourceCounter.v)

\* C15: for every valid Base32 secret, every algorithm of SHA1, SHA256, SHA512
\* and every digits of 6, 7, 8, generateTOTP returns exactly digits characters,
\* each a decimal digit, and never 'ERROR'
C15_CodeShape ==
    (/\ genOut.called
     /\ genArgs[3] \in {6, 7, 8}
     /\ genArgs[2] \in {"SHA1", "SHA256", "SHA512"}
     /\ genArgs[1] # "" /\ B32Valid(genArgs[1])) =>
        /\ genOut.result # "ERROR"
        /\ Len(genOut.result) = genArgs[3]
        /\ AllDigits(genOut.result)

\* C15 witness: a code of 8 digits that needed left padding was returned
C15_Witness ==
    /\ genOut.called /\ genArgs = <<S16, "SHA512", 8, 30>>
    /\ genOut.result = "00999999"

\* the stored accounts
Stored == {accounts[i] : i \in 1..Len(accounts)}

\* C16 (claim): after any sequence of addAccount, updateAccount, deleteAccount
\* and importAccounts calls every stored account has an id and no two stored
\* accounts have the same id
C16_UniqueIds ==
    \A i \in 1..Len(accounts) :
        /\ "id" \in DOMAIN accounts[i] /\ accounts[i].id # ""
        /\ \A j \in 1..Len(accounts) : j # i => ~HasId(accounts[j], accounts[i].id)

\* C17 (claim): every stored account, whether it came from parse, from manual
\* entry or from importAccounts, has a secret of characters A-Z and 2-7 with
\* optional trailing '=', without whitespace and lower case
C17_SecretsNormalized == \A a \in Stored : Base32Regex(a.secret)

\* C18 (claim): every stored account has digits and period that are positive
\* integers, never 0, negative, NaN or missing
C18_DigitsPeriodPositive ==
    \A a \in Stored :
        /\ "digits" \in DOMAIN a /\ a.digits > 0
        /\ "period" \in DOMAIN a /\ a.period > 0

\* C19 (claim): every stored account has algorithm SHA1, SHA256 or SHA512; an
\* input that names another algorithm is never stored
C19_AlgorithmSupported ==
    \A a \in Stored : "algorithm" \in DOMAIN a /\ a.algorithm \in {"SHA1", "SHA256", "SHA512"}

\* the account has the secret, issuer and name of the credential
SameCredential(a, c) == a.secret = c.secret /\ a.issuer = c.issuer /\ a.name = c.name

\* C20 (claim): when TokenImporter.handleScan processes the otpauth URI that
\* its previous call processed, the store holds exactly one account with the
\* secret, issuer and name of that credential afterwards, not a duplicate
C20_NoDuplicateImport ==
    [][(ImporterScan /\ tiAccount.trace = <<"otpauth">> /\ tiAccount' = tiAccount
                     /\ accounts' # accounts)
          => Cardinality({i \in 1..Len(accounts') : SameCredential(accounts'[i], tiAccount')}) = 1]_vars

\* the accounts that the accounts item holds
Held(it) == IF it.kind = "array" THEN {it.accounts[i] : i \in 1..Len(it.accounts)} ELSE {}

\* C21 (claim): the createdAt stored under an id never changes: when a step
\* leaves an account with the id of an account that was stored before it, the
\* two have the same createdAt
C21_CreatedAtFixed ==
    [][\A a \in Held(item), b \in Held(item') :
          ("id" \in DOMAIN a /\ HasId(b, a.id)) => b.createdAt = a.createdAt]_vars

\* C22 (claim): a setEncryptedStorage(true) that wrote the accounts keeps
\* them: getAccounts resolves afterwards to what it resolved to before
C22_EncryptionKeepsAccounts ==
    [][(storeCall'.op = "setEncryptedStorage" /\ storeCall'.arg /\ storeCall'.wrote)
          => getAccounts(item', flag', "read") = getAccounts(item, flag, "read")]_vars

\* C24 (claim): getAccounts never rejects; it resolves to the empty list when
\* nothing is stored, when a read of the storage fails, when the key cannot be
\* had, and when the stored value does not decode
C24_GetAccountsNeverThrows ==
    storeCall.op = "getAccounts" =>
        /\ ~storeCall.read.threw
        /\ item.kind = "none" => storeCall.read = Accounts(<<>>)
        /\ storeCall.io \in {"readFailed", "flagReadFailed"} => storeCall.read = Accounts(<<>>)
        /\ (flag = "true" /\ item.kind = "object"
               /\ (storeCall.io = "keyFailed" \/ ~HexIsJSON(item.data)))
              => storeCall.read = Accounts(<<>>)

\* getAccounts has resolved to [] on an encrypted item that does not decode,
\* and on a failed read of a stored list
C24_Witness ==
    /\ storeCall.op = "getAccounts" /\ storeCall.read = Accounts(<<>>)
    /\ \/ storeCall.io = "read" /\ flag = "true" /\ item.kind = "object"
       \/ storeCall.io = "readFailed" /\ item.kind = "array" /\ item.accounts # <<>>

\* C26 (claim): after a call whose saveAccounts(L) wrote the item, under
\* either value of the flag, getAccounts resolves to L
C26_SaveLoadRoundTrip ==
    (storeCall.op \notin {"none", "getAccounts", "exportAccounts"} /\ storeCall.wrote)
        => getAccounts(item, flag, "read") = Accounts(storeCall.save)

\* the accounts of a list whose id is not id, in the order of the list
RECURSIVE Others(_, _)
Others(list, id) ==
    IF list = <<>> THEN <<>>
    ELSE IF "id" \in DOMAIN Head(list) /\ Head(list).id = id THEN Others(Tail(list), id)
    ELSE <<Head(list)>> \o Others(Tail(list), id)

\* C30 (claim): after a deleteAccount(id) that wrote the store, the store holds
\* the accounts it held whose id is not id, in their order, and no other;
\* updateAccount(a) changes the record whose id is a.id and no other, and
\* writes nothing and leaves the store as it is when no record has that id
C30_FrameEffect ==
    [][/\ (storeCall'.op = "deleteAccount" /\ storeCall'.wrote)
           => getAccounts(item', flag', "read").list
                 = Others(getAccounts(item, flag, "read").list, storeCall'.arg)
       /\ (storeCall'.op = "updateAccount" /\ ~storeCall'.threw)
           => /\ Others(getAccounts(item', flag', "read").list, storeCall'.arg.id)
                    = Others(getAccounts(item, flag, "read").list, storeCall'.arg.id)
              /\ Len(getAccounts(item', flag', "read").list)
                    = Len(getAccounts(item, flag, "read").list)
              /\ (\A a \in Held(item) : ~HasId(a, storeCall'.arg.id))
                    => (~storeCall'.saves /\ item' = item)]_vars

\* importAccounts: an element of data.accounts that passes the filter
HasRequiredFields(entry) == {"name", "issuer", "secret"} \subseteq DOMAIN entry

\* C29 (claim): an importAccounts of a text that is no JSON or has no accounts
\* array returns false and leaves the store as it is; an importAccounts that
\* returns true, its write done, leaves in the store exactly the entries of the
\* backup that have a name, an issuer and a secret, whatever the store held
\* before
C29_ImportReplaces ==
    [][storeCall'.op = "importAccounts" =>
          \E backup \in {BackupOf(JSONparse(storeCall'.arg))} :
             /\ backup.kind # "accounts" => (~storeCall'.returned /\ item' = item)
             /\ (storeCall'.returned /\ storeCall'.wrote)
                   => getAccounts(item', flag', "read")
                         = Accounts(SelectSeq(backup.accounts, HasRequiredFields))]_vars

\* C23 (claim): an importAccounts of the text that exportAccounts returned
\* after a read that succeeded, when it returns true, its write done, leaves in
\* the store the accounts that were stored when exportAccounts was called,
\* every property as it was
C23_BackupRoundTrip ==
    [][(storeCall'.op = "importAccounts" /\ storeCall'.arg = exported.text
           /\ exported.read
           /\ storeCall'.returned /\ storeCall'.wrote)
          => getAccounts(item', flag', "read") = Accounts(exported.accounts)]_vars

\* C25 (claim): no lost update.  Once every call that was started has ended,
\* the list holds the account that each addAccount returned and the account
\* that each updateAccount stored, unless another call had the same id as its
\* target
C25_NoLostUpdate ==
    (\A c \in CallIds : calls[c].pc \in {"idle", "done"})
       => \A c \in CallIds :
             (/\ calls[c].pc = "done" /\ calls[c].op \in {"addAccount", "updateAccount"}
              /\ FindIndex(calls[c].save, CallTarget(calls[c])) # 0
              /\ \A d \in CallIds \ {c} :
                    calls[d].pc = "done" => CallTarget(calls[d]) # CallTarget(calls[c]))
                => \E i \in 1..Len(accounts) : accounts[i] = CallAccount(calls[c])

\* C27 (claim): once onCancel has been called, the onScan of a code that the
\* scanner took before is not called any more: no call of onScan comes from a
\* timer that was pending when the user cancelled
C27_NoScanAfterCancel == ~onScanCall.cancelled

\* C28 (claim): one code held before the camera starts at most one addAccount
\* call, whatever the number of frames in which it is detected
C28_OneScanAtATime == importer.adds <= 1

====
